---- MODULE Spec2Model ----
(***************************************************************************)
(* A model of the debugui immediate-mode GUI core: the tree-node pool,     *)
(* the hover/focus resolver (updateControl), the widget declarations and   *)
(* the root-container (window/popup/panel) bookkeeping.                    *)
(*                                                                         *)
(* The Context is one record; every handler of the Go code is a function   *)
(* from Context to Context, written statement by statement.  A frame is    *)
(* BeginFrame, the declarations of the application in order, EndFrame.     *)
(* The application is one of a few fixed declaration programs ("scenes"),  *)
(* a flattened widget tree whose containers end with an "end" entry.       *)
(***************************************************************************)
EXTENDS Integers, Sequences, FiniteSets, TLC

VARIABLES
    ctx,        \* the Context struct (all fields, see InitCtx)
    app,        \* which declaration program the host application runs
    pc,         \* 0: between frames; i >= 1: about to run Scene(app)[i]
    calls,      \* the Go call stack of open window/panel/treeNode declarations
    vals,       \* the application's bound values (checkbox bools, numbers, strings)
    resp,       \* the Response returned by the last widget declaration
    ran,        \* body callbacks invoked in the current frame (scene indices)
    hist        \* history: the popups opened in this frame, the root
                \* containers tested against the mouse in this frame, and the
                \* controls the resting mouse was over, in declaration order,
                \* in this frame and in the previous one

vars == <<ctx, app, pc, calls, vals, resp, ran, hist>>

-----------------------------------------------------------------------------
(* Bounds of the model *)

MaxFrames == 5      \* frames per behaviour
PoolSize == 2       \* slots of treeNodePool (fixed at construction)

-----------------------------------------------------------------------------
(* image.Point / image.Rectangle *)

Pt(x, y) == [x |-> x, y |-> y]
Rect(x0, y0, x1, y1) == [minX |-> x0, minY |-> y0, maxX |-> x1, maxY |-> y1]
ZR == Rect(0, 0, 0, 0)
Dx(r) == r.maxX - r.minX
Dy(r) == r.maxY - r.minY
Max(a, b) == IF a > b THEN a ELSE b
Min(a, b) == IF a < b THEN a ELSE b
Abs(a) == IF a < 0 THEN -a ELSE a
\* Go's integer division truncates toward zero
TruncDiv(a, b) ==
    IF (a >= 0) = (b > 0) THEN Abs(a) \div Abs(b) ELSE -(Abs(a) \div Abs(b))
clamp(x, a, b) == Min(b, Max(a, x))

\* image.Point.In: Min inclusive, Max exclusive
PtIn(p, r) == r.minX <= p.x /\ p.x < r.maxX /\ r.minY <= p.y /\ p.y < r.maxY

RectAdd(r, p) == Rect(r.minX + p.x, r.minY + p.y, r.maxX + p.x, r.maxY + p.y)
RectSub(r, p) == Rect(r.minX - p.x, r.minY - p.y, r.maxX - p.x, r.maxY - p.y)
RectInset(r, n) == Rect(r.minX + n, r.minY + n, r.maxX - n, r.maxY - n)

\* image.Rectangle.Intersect: the zero rectangle when the two do not overlap
RectIntersect(r, s) ==
    LET t == Rect(Max(r.minX, s.minX), Max(r.minY, s.minY),
                  Min(r.maxX, s.maxX), Min(r.maxY, s.maxY))
    IN IF t.minX >= t.maxX \/ t.minY >= t.maxY THEN ZR ELSE t

unclippedRect == Rect(0, 0, 16777216, 16777216)

-----------------------------------------------------------------------------
(* float64 values, kept exact as normalised fractions n/d with d > 0 *)

RECURSIVE Gcd(_, _)
Gcd(a, b) == IF b = 0 THEN a ELSE Gcd(b, a % b)

Rat(n, d) ==
    LET s == IF d < 0 THEN -1 ELSE 1
        g == Gcd(Abs(n), Abs(d))
    IN [n |-> s * (n \div g), d |-> s * (d \div g)]
RatInt(i) == [n |-> i, d |-> 1]
RatAdd(a, b) == Rat(a.n * b.d + b.n * a.d, a.d * b.d)
RatSub(a, b) == Rat(a.n * b.d - b.n * a.d, a.d * b.d)
RatMul(a, b) == Rat(a.n * b.n, a.d * b.d)
RatDiv(a, b) == Rat(a.n * b.d, a.d * b.n)
RatLess(a, b) == a.n * b.d < b.n * a.d
\* math.Round: to the nearest integer, halves away from zero
RatRound(a) ==
    LET q == (2 * Abs(a.n) + a.d) \div (2 * a.d)
    IN RatInt(IF a.n < 0 THEN -q ELSE q)
\* clampF(x, a, b) = min(b, max(a, x))
clampF(x, a, b) ==
    LET m == IF RatLess(x, a) THEN a ELSE x
    IN IF RatLess(b, m) THEN b ELSE m

-----------------------------------------------------------------------------
(* Style metrics (defaultStyle) and identifiers *)

stylePadding == 5
styleTitleHeight == 24
styleScrollbarSize == 12
styleThumbSize == 8
styleIndent == 24

\* idFromBytes: the hash of a fixed key seeded with the top of the ID stack,
\* modelled as an injective pairing (widget ids of the scenes are below IdBase)
IdBase == 100
Top(s) == IF Len(s) = 0 THEN 0 ELSE s[Len(s)]
PopSeq(s) == SubSeq(s, 1, Len(s) - 1)
idFromBytes(c, key) == IdBase * Top(c.idStack) + key
KeyTitle == 1
KeyClose == 2
KeyResize == 3
KeyScrollY == 4
KeyScrollX == 5

pushID(c, id) == [c EXCEPT !.idStack = Append(@, id)]
popID(c) == [c EXCEPT !.idStack = PopSeq(@)]

-----------------------------------------------------------------------------
(* Context *)

CntIds == 1 .. 5      \* controlIDs used by the scenes for containers; 0 is nil

ZeroContainer ==
    [created |-> FALSE, rect |-> ZR, body |-> ZR, contentSize |-> Pt(0, 0),
     scroll |-> Pt(0, 0), headIdx |-> 0, tailIdx |-> 0, zIndex |-> 0,
     open |-> FALSE]

ZeroPoolItem == [id |-> 0, lastUpdate |-> 0]

InitCtx ==
    [tick |-> 0,
     treeNodePool |-> [i \in 0 .. PoolSize - 1 |-> ZeroPoolItem],
     focus |-> 0, hover |-> 0, keepFocus |-> FALSE,
     mousePos |-> Pt(0, 0), lastMousePos |-> Pt(0, 0), mouseDelta |-> Pt(0, 0),
     mouseDown |-> {}, mousePressed |-> {},
     keyDown |-> {}, keyPressed |-> {},
     hoverRoot |-> 0, nextHoverRoot |-> 0,
     containerStack |-> <<>>, clipStack |-> <<>>, idStack |-> <<>>,
     layoutStack |-> <<>>,
     commandList |-> <<>>, rootList |-> <<>>,
     containers |-> [w \in CntIds |-> ZeroContainer],
     lastZIndex |-> 0,
     numberEdit |-> 0, numberEditBuf |-> "",
     scrollTarget |-> 0,
     textFields |-> <<>>,
     panicked |-> FALSE,
     log |-> <<>>]

-----------------------------------------------------------------------------
(* pool.go *)

PoolIdx == 0 .. PoolSize - 1

RECURSIVE poolInitScan(_, _, _, _)
poolInitScan(items, i, f, n) ==
    IF i >= PoolSize THEN n
    ELSE IF items[i].lastUpdate < f
         THEN poolInitScan(items, i + 1, items[i].lastUpdate, i)
         ELSE poolInitScan(items, i + 1, f, n)

poolUpdate(c, idx) == [c EXCEPT !.treeNodePool[idx].lastUpdate = c.tick]

\* (a poolInit that also takes a slot touched in the current tick)
poolInitAnySlot(c, id) ==
    LET n == poolInitScan(c.treeNodePool, 0, c.tick + 1, -1)
        entry == [op |-> "poolInit", id |-> id, n |-> n,
                  before |-> c.treeNodePool, tick |-> c.tick]
        c1 == [c EXCEPT !.log = Append(@, entry)]
    IN poolUpdate([c1 EXCEPT !.treeNodePool[n].id = id], n)

\* items[n] with n = -1 is an index-out-of-range panic
poolInit(c, id) ==
    LET n == poolInitScan(c.treeNodePool, 0, c.tick, -1)
        entry == [op |-> "poolInit", id |-> id, n |-> n,
                  before |-> c.treeNodePool, tick |-> c.tick]
        c1 == [c EXCEPT !.log = Append(@, entry)]
    IN IF n = -1
       THEN [c1 EXCEPT !.panicked = TRUE]
       ELSE poolUpdate([c1 EXCEPT !.treeNodePool[n].id = id], n)

RECURSIVE poolGetScan(_, _, _)
poolGetScan(items, id, i) ==
    IF i >= PoolSize THEN -1
    ELSE IF items[i].id = id THEN i
    ELSE poolGetScan(items, id, i + 1)

poolGet(c, id) == poolGetScan(c.treeNodePool, id, 0)

-----------------------------------------------------------------------------
(* Command list and clip stack *)

pushCommand(c, cmd) == [c EXCEPT !.commandList = Append(@, cmd)]
\* pushJump returns the index of the new command (0-based, as in Go)
pushJump(c, dst) == pushCommand(c, [typ |-> "jump", dst |-> dst])
drawRect(c) == pushCommand(c, [typ |-> "rect", dst |-> 0])
drawBox(c) == pushCommand(c, [typ |-> "box", dst |-> 0])
drawText(c) == pushCommand(c, [typ |-> "text", dst |-> 0])
drawIcon(c) == pushCommand(c, [typ |-> "icon", dst |-> 0])

NoBorderColors == {"ScrollBase", "ScrollThumb", "TitleBG"}

drawFrame(c, colorid) ==
    IF colorid \in NoBorderColors THEN drawRect(c) ELSE drawBox(drawRect(c))

clipRect(c) == IF Len(c.clipStack) = 0 THEN unclippedRect ELSE Top(c.clipStack)
pushClipRect(c, r) ==
    [c EXCEPT !.clipStack = Append(@, RectIntersect(r, clipRect(c)))]
popClipRect(c) == [c EXCEPT !.clipStack = PopSeq(@)]

drawControlFrame(c, id, colorid, opt) ==
    IF "NoFrame" \in opt THEN c ELSE drawFrame(c, colorid)

drawControlText(c, rect) == popClipRect(drawText(pushClipRect(c, rect)))

-----------------------------------------------------------------------------
(* Layout stack (the layout engine proper is outside the model: a widget's *)
(* rectangle is its scene rectangle placed at the origin of the current    *)
(* layout body, shifted right by the indent)                               *)

layout(c) == Top(c.layoutStack)

LayoutMaxInit == Pt(-16777216, -16777216)

pushLayout(c, body, scroll) ==
    [c EXCEPT !.layoutStack =
        Append(@, [body |-> RectSub(body, scroll), indent |-> 0,
                   max |-> LayoutMaxInit])]

\* the rectangle of the next widget
layoutRect(c, r) ==
    RectAdd(r, Pt(layout(c).body.minX + layout(c).indent, layout(c).body.minY))

\* layoutNext also records the extent touched (the content size to be)
layoutNext(c, r) ==
    LET rect == layoutRect(c, r)
        n == Len(c.layoutStack)
    IN [c EXCEPT !.layoutStack[n].max =
            Pt(Max(@.x, rect.maxX), Max(@.y, rect.maxY))]

-----------------------------------------------------------------------------
(* Hover / focus resolution *)

currentContainer(c) == Top(c.containerStack)

\* (a hover root that is looked for on the whole container stack)
inHoverRootAnywhere(c) ==
    \E i \in 1 .. Len(c.containerStack) : c.containerStack[i] = c.hoverRoot

RECURSIVE inHoverRootScan(_, _)
inHoverRootScan(c, i) ==
    IF i < 1 THEN FALSE
    ELSE IF c.containerStack[i] = c.hoverRoot THEN TRUE
    ELSE IF c.containers[c.containerStack[i]].headIdx >= 0 THEN FALSE
    ELSE inHoverRootScan(c, i - 1)

inHoverRoot(c) == inHoverRootScan(c, Len(c.containerStack))

\* (a mouseOver that ignores the clip rectangle)
mouseOverUnclipped(c, rect) == PtIn(c.mousePos, rect) /\ inHoverRoot(c)

mouseOver(c, rect) ==
    PtIn(c.mousePos, rect) /\ PtIn(c.mousePos, clipRect(c)) /\ inHoverRoot(c)

setFocus(c, id) == [c EXCEPT !.focus = id, !.keepFocus = TRUE]

\* the log entry of one updateControl call: its arguments, the context it
\* ran in and the hover/focus before and after
ucEntry(c, id, rect, opt, after) ==
    [op |-> "updateControl", id |-> id, rect |-> rect, opt |-> opt,
     clip |-> clipRect(c), stack |-> c.containerStack,
     hoverBefore |-> c.hover, focusBefore |-> c.focus,
     hoverAfter |-> after.hover, focusAfter |-> after.focus]

\* if c.focus == id { c.keepFocus = true }
keepIfFocused(c, id) == IF c.focus = id THEN [c EXCEPT !.keepFocus = TRUE] ELSE c

\* (a hover the first of the overlapping controls keeps)
hoverIfFree(c, id, mouseover) ==
    IF mouseover /\ c.mouseDown = {} /\ c.hover = 0 THEN [c EXCEPT !.hover = id] ELSE c

\* if mouseover && c.mouseDown == 0 { c.hover = id }
hoverIfOver(c, id, mouseover) ==
    IF mouseover /\ c.mouseDown = {} THEN [c EXCEPT !.hover = id] ELSE c

\* if c.focus == id { click away; release without hold-focus }
dropFocus(c, id, opt, mouseover) ==
    LET clickAway(x) == IF x.mousePressed # {} /\ ~mouseover
                        THEN setFocus(x, 0) ELSE x
        release(x) == IF x.mouseDown = {} /\ "HoldFocus" \notin opt
                      THEN setFocus(x, 0) ELSE x
    IN IF c.focus = id THEN release(clickAway(c)) ELSE c

\* (a focus that is taken only with the mouse over the control)
takeFocusOver(c, id, mouseover) ==
    IF c.hover = id
    THEN IF c.mousePressed # {} /\ mouseover THEN setFocus(c, id)
         ELSE IF ~mouseover THEN [c EXCEPT !.hover = 0]
         ELSE c
    ELSE c

\* if c.hover == id { press edge: focus; else mouse gone: hover = 0 }
takeFocus(c, id, mouseover) ==
    IF c.hover = id
    THEN IF c.mousePressed # {} THEN setFocus(c, id)
         ELSE IF ~mouseover THEN [c EXCEPT !.hover = 0]
         ELSE c
    ELSE c

updateControlSteps(c, id, rect, opt) ==
    LET mouseover == mouseOver(c, rect)
    IN IF "NoInteract" \in opt THEN keepIfFocused(c, id)
       ELSE takeFocus(dropFocus(hoverIfOver(keepIfFocused(c, id), id, mouseover),
                                id, opt, mouseover),
                      id, mouseover)

updateControl(c, id, rect, opt) ==
    LET logged(x) == [x EXCEPT !.log = Append(@, ucEntry(c, id, rect, opt, x))]
    IN IF id = 0 THEN c ELSE logged(updateControlSteps(c, id, rect, opt))

-----------------------------------------------------------------------------
(* Widgets.  A scene entry n has: op, id (the controlID pushID yields, 0   *)
(* for an empty label), r (its rectangle in layout coordinates, for a      *)
(* window its initial rectangle), opt (option set), var (bound value).     *)
(* A handler returns the Context and the Response.                         *)

Ret(c, res) == [c |-> c, res |-> res]

\* control: layoutNext, updateControl, then the widget's closure
control(c, id, r, opt) == updateControl(layoutNext(c, r), id, layoutRect(c, r), opt)

WithID(c, id) == IF id # 0 THEN pushID(c, id) ELSE c
DropID(c, id) == IF id # 0 THEN popID(c) ELSE c

button(c, n) ==
    LET id == n.id
        r == layoutRect(WithID(c, id), n.r)
        frame(x) == drawControlFrame(x, id, "Button", n.opt)
        draw(x) == IF n.label THEN drawControlText(frame(x), r) ELSE frame(x)
        after(x) == Ret(DropID(draw(x), id),
                        IF x.mousePressed = {"L"} /\ x.focus = id
                        THEN {"Submit"} ELSE {})
    IN after(control(WithID(c, id), id, n.r, n.opt))

label(c, n) ==
    LET r == layoutRect(c, n.r)
        c1 == control(c, 0, n.r, {})
    IN Ret(drawControlText(c1, r), {})

\* (a pool update that inserts an open header in every frame)
headerPoolReinsert(c, id, idx, active) ==
    IF active THEN poolInit(c, id)
    ELSE IF idx >= 0 THEN [c EXCEPT !.treeNodePool[idx] = ZeroPoolItem]
    ELSE c

\* header: the part up to the pool update, which may panic in poolInit
headerPool(c, id, idx, active) ==
    IF idx >= 0
    THEN IF active THEN poolUpdate(c, idx)
         ELSE [c EXCEPT !.treeNodePool[idx] = ZeroPoolItem]
    ELSE IF active THEN poolInit(c, id) ELSE c

header(c, n, istreenode) ==
    LET id == n.id
        c0 == WithID(c, id)
        idx == poolGet(c0, id)
        active0 == idx >= 0
        expanded == IF "Expanded" \in n.opt THEN ~active0 ELSE active0
        r == layoutRect(c0, n.r)
        clicked(x) == x.mousePressed = {"L"} /\ x.focus = id
        pool(x) == headerPool(x, id, idx, active0 # clicked(x))
        frame(x) == IF istreenode
                    THEN IF x.hover = id THEN drawFrame(x, "ButtonHover") ELSE x
                    ELSE drawControlFrame(x, id, "Button", {})
        finish(x) == IF x.panicked THEN Ret(x, {})
                     ELSE Ret(DropID(drawControlText(drawIcon(frame(x)), r), id),
                              IF expanded THEN {"Active"} ELSE {})
    IN finish(pool(control(c0, id, n.r, {})))

\* (a click that any press edge including the left button's makes)
checkboxPressed(c, id) == "L" \in c.mousePressed /\ c.focus = id

\* handle click: c.mousePressed == mouseLeft && c.focus == id
checkboxClicked(c, id) == c.mousePressed = {"L"} /\ c.focus = id

Checkbox(c, n, state) ==
    LET id == n.id
        r == layoutRect(pushID(c, id), n.r)
        click(x) == checkboxClicked(x, id)
        box(x) == drawControlFrame(x, id, "Base", {})
        mark(x) == IF state # click(x) THEN drawIcon(box(x)) ELSE box(x)
        after(x) == [c |-> popID(drawControlText(mark(x), r)),
                     res |-> IF click(x) THEN {"Change"} ELSE {},
                     v |-> IF click(x) THEN ~state ELSE state]
    IN after(updateControl(control(pushID(c, id), id, n.r, {}), id, r, {}))

-----------------------------------------------------------------------------
(* Text boxes.  A string is a sequence of characters.  The text-composition *)
(* service (textinput.Field) is outside the code: what HandleInput reports  *)
(* in a frame is the input tin = [err, handled, typed], typed being the     *)
(* character the user composed ("" for none).                               *)

NoText == [err |-> FALSE, handled |-> FALSE, typed |-> ""]

textField(c, id) ==
    IF id \in DOMAIN c.textFields THEN c
    ELSE [c EXCEPT !.textFields = (id :> <<>>) @@ @]

SetTextAndSelection(c, id, text) == [c EXCEPT !.textFields[id] = text]

\* (a text box that keeps the focus on Enter)
textBoxInputKeepFocus(c, buf, id, tin) ==
    LET c1 == IF tin.typed = "" THEN c
              ELSE [c EXCEPT !.textFields[id] = Append(@, tin.typed)]
        buf1 == c1.textFields[id]
        res1 == IF buf # buf1 THEN {"Change"} ELSE {}
        back == ~tin.handled /\ "Backspace" \in c1.keyPressed /\ Len(buf1) > 0
        buf2 == IF back THEN PopSeq(buf1) ELSE buf1
        c2 == IF back THEN SetTextAndSelection(c1, id, buf2) ELSE c1
        res2 == IF back THEN res1 \cup {"Change"} ELSE res1
        enter == ~tin.handled /\ "Enter" \in c2.keyPressed
        c3 == IF enter THEN SetTextAndSelection(c2, id, <<>>) ELSE c2
    IN [c |-> c3, res |-> IF enter THEN res2 \cup {"Submit"} ELSE res2, buf |-> buf2]

\* the focused branch after HandleInput has succeeded
textBoxInput(c, buf, id, tin) ==
    LET c1 == IF tin.typed = "" THEN c
              ELSE [c EXCEPT !.textFields[id] = Append(@, tin.typed)]
        buf1 == c1.textFields[id]
        res1 == IF buf # buf1 THEN {"Change"} ELSE {}
        back == ~tin.handled /\ "Backspace" \in c1.keyPressed /\ Len(buf1) > 0
        buf2 == IF back THEN PopSeq(buf1) ELSE buf1
        c2 == IF back THEN SetTextAndSelection(c1, id, buf2) ELSE c1
        res2 == IF back THEN res1 \cup {"Change"} ELSE res1
        enter == ~tin.handled /\ "Enter" \in c2.keyPressed
        c3 == IF enter THEN SetTextAndSelection(setFocus(c2, 0), id, <<>>) ELSE c2
    IN [c |-> c3, res |-> IF enter THEN res2 \cup {"Submit"} ELSE res2, buf |-> buf2]

textBoxDraw(c, id, r, opt) ==
    LET c1 == drawControlFrame(c, id, "Base", opt)
    IN IF c1.focus = id
       THEN popClipRect(drawRect(drawText(pushClipRect(c1, r))))
       ELSE drawControlText(c1, r)

\* (a text box that passes its options on unchanged)
textBoxOptAsGiven(opt) == opt

\* opt|optionHoldFocus
textBoxOpt(opt) == opt \cup {"HoldFocus"}

\* (a text box that goes on after a failed HandleInput)
textBoxRawIgnoreErr(c, buf, id, opt, nr, tin) ==
    LET r == layoutRect(c, nr)
        heard(x) == [x EXCEPT !.log = Append(@, [op |-> "HandleInput", tin |-> tin])]
        sync(x) == IF buf # x.textFields[id]
                   THEN SetTextAndSelection(x, id, buf) ELSE x
        drawn(t) == [t EXCEPT !.c = textBoxDraw(t.c, id, r, opt)]
        body(x) == IF x.focus = id
                   THEN drawn(textBoxInput(heard(x), buf, id, tin))
                   ELSE [c |-> textBoxDraw(sync(x), id, r, opt), res |-> {},
                         buf |-> buf]
    IN body(textField(control(c, id, nr, textBoxOpt(opt)), id))

textBoxRaw(c, buf, id, opt, nr, tin) ==
    LET r == layoutRect(c, nr)
        heard(x) == [x EXCEPT !.log = Append(@, [op |-> "HandleInput", tin |-> tin])]
        failed(x) == [x EXCEPT !.log = Append(@, [op |-> "stderr"])]
        sync(x) == IF buf # x.textFields[id]
                   THEN SetTextAndSelection(x, id, buf) ELSE x
        drawn(t) == [t EXCEPT !.c = textBoxDraw(t.c, id, r, opt)]
        body(x) == IF x.focus = id
                   THEN IF tin.err
                        THEN [c |-> failed(heard(x)), res |-> {}, buf |-> buf]
                        ELSE drawn(textBoxInput(heard(x), buf, id, tin))
                   ELSE [c |-> textBoxDraw(sync(x), id, r, opt), res |-> {},
                         buf |-> buf]
    IN body(textField(control(c, id, nr, textBoxOpt(opt)), id))

textBox(c, n, buf, tin) ==
    LET out(t) == [c |-> popID(t.c), res |-> t.res, v |-> t.buf]
    IN out(textBoxRaw(pushID(c, n.id), buf, n.id, n.opt, n.r, tin))

-----------------------------------------------------------------------------
(* Numbers as text *)

Digits == <<"0", "1", "2", "3", "4", "5", "6", "7", "8", "9">>
DigitVal(ch) == CHOOSE k \in 0 .. 9 : Digits[k + 1] = ch
IsDigit(ch) == \E k \in 1 .. 10 : Digits[k] = ch

RECURSIVE natText(_)
natText(k) == IF k < 10 THEN <<Digits[k + 1]>>
              ELSE Append(natText(k \div 10), Digits[(k % 10) + 1])

\* fmt.Sprintf("%.3g", v) for the values the scenes use: |v| < 100 with at
\* most one decimal, where three significant digits print v exactly
FormatReal(v) ==
    LET tenths == Abs(v.n) * (10 \div v.d)
        whole == natText(tenths \div 10)
        frac == IF tenths % 10 = 0 THEN <<>> ELSE <<".", Digits[(tenths % 10) + 1]>>
    IN (IF v.n < 0 THEN <<"-">> ELSE <<>>) \o whole \o frac

RECURSIVE digitsValue(_, _)
digitsValue(t, acc) ==
    IF Len(t) = 0 THEN acc ELSE digitsValue(Tail(t), 10 * acc + DigitVal(Head(t)))

RECURSIVE pow10(_)
pow10(k) == IF k = 0 THEN 1 ELSE 10 * pow10(k - 1)

\* the decimal literals strconv.ParseFloat accepts among the texts of the
\* model: [-]digits[.digits] with a digit on at least one side of the point
DotAt(t) == IF \E k \in 1 .. Len(t) : t[k] = "." 
            THEN CHOOSE k \in 1 .. Len(t) : t[k] = "." ELSE Len(t) + 1
IsDecimal(t) ==
    LET body == IF Len(t) > 0 /\ t[1] = "-" THEN Tail(t) ELSE t
        dot == DotAt(body)
    IN /\ \A k \in 1 .. Len(body) : k # dot => IsDigit(body[k])
       /\ Len(body) - (IF dot <= Len(body) THEN 1 ELSE 0) > 0

DecimalValue(t) ==
    LET neg == t[1] = "-"
        body == IF neg THEN Tail(t) ELSE t
        dot == DotAt(body)
        ip == SubSeq(body, 1, dot - 1)
        fp == SubSeq(body, dot + 1, Len(body))
        mag == Rat(digitsValue(ip \o fp, 0), pow10(Len(fp)))
    IN IF neg THEN Rat(-mag.n, mag.d) ELSE mag

\* the nearest float32 (24-bit mantissa, ties to even)
RECURSIVE f32Scale(_, _, _)
f32Scale(n, d, e) ==
    IF n >= 16777216 * d THEN f32Scale(n, 2 * d, e + 1)
    ELSE IF n < 8388608 * d THEN f32Scale(2 * n, d, e - 1)
    ELSE [n |-> n, d |-> d, e |-> e]

RECURSIVE pow2(_)
pow2(k) == IF k = 0 THEN 1 ELSE 2 * pow2(k - 1)

Float32(v) ==
    IF v.n = 0 THEN v
    ELSE LET s == f32Scale(Abs(v.n), v.d, 0)
             q == s.n \div s.d
             rem == s.n % s.d
             m == IF 2 * rem > s.d \/ (2 * rem = s.d /\ q % 2 = 1) THEN q + 1 ELSE q
             mag == IF s.e >= 0 THEN Rat(m * pow2(s.e), 1) ELSE Rat(m, pow2(-s.e))
         IN IF v.n < 0 THEN Rat(-mag.n, mag.d) ELSE mag

\* strconv.ParseFloat(s, 32): the value and whether parsing failed
ParseFloat32(t) ==
    IF IsDecimal(t) THEN [v |-> Float32(DecimalValue(t)), err |-> FALSE]
    ELSE [v |-> RatInt(0), err |-> TRUE]

\* (a number text box that keeps the value when the text is malformed)
numberTextBoxKeep(c, value, id, nr, tin) ==
    LET start(x) == IF x.mousePressed = {"L"} /\ "Shift" \in x.keyDown
                       /\ x.hover = id
                    THEN [x EXCEPT !.numberEdit = id,
                                   !.numberEditBuf = FormatReal(value)]
                    ELSE x
        parsed(p) == IF p.err THEN value ELSE p.v
        done(submit, x) ==
            IF submit \/ x.focus # id
            THEN [c |-> [x EXCEPT !.numberEdit = 0],
                  v |-> parsed(ParseFloat32(x.numberEditBuf)), text |-> TRUE]
            ELSE [c |-> x, v |-> value, text |-> TRUE]
        stored(t) == done("Submit" \in t.res, [t.c EXCEPT !.numberEditBuf = t.buf])
        edit(x) == IF x.numberEdit = id
                   THEN stored(textBoxRaw(x, x.numberEditBuf, id, {}, nr, tin))
                   ELSE [c |-> x, v |-> value, text |-> FALSE]
    IN edit(start(c))

numberTextBox(c, value, id, nr, tin) ==
    LET start(x) == IF x.mousePressed = {"L"} /\ "Shift" \in x.keyDown
                       /\ x.hover = id
                    THEN [x EXCEPT !.numberEdit = id,
                                   !.numberEditBuf = FormatReal(value)]
                    ELSE x
        parsed(p) == IF p.err THEN RatInt(0) ELSE p.v
        done(submit, x) ==
            IF submit \/ x.focus # id
            THEN [c |-> [x EXCEPT !.numberEdit = 0],
                  v |-> parsed(ParseFloat32(x.numberEditBuf)), text |-> TRUE]
            ELSE [c |-> x, v |-> value, text |-> TRUE]
        stored(t) == done("Submit" \in t.res, [t.c EXCEPT !.numberEditBuf = t.buf])
        edit(x) == IF x.numberEdit = id
                   THEN stored(textBoxRaw(x, x.numberEditBuf, id, {}, nr, tin))
                   ELSE [c |-> x, v |-> value, text |-> FALSE]
    IN edit(start(c))

\* (a slider that ignores its step)
sliderValueUnstepped(c, n, r) ==
    RatAdd(n.lo, RatDiv(RatMul(RatInt(c.mousePos.x - r.minX), RatSub(n.hi, n.lo)),
                        RatInt(Dx(r))))

\* slider: the value the mouse position selects
sliderValue(c, n, r) ==
    LET raw == RatAdd(n.lo, RatDiv(RatMul(RatInt(c.mousePos.x - r.minX),
                                          RatSub(n.hi, n.lo)),
                                   RatInt(Dx(r))))
    IN IF n.step.n # 0 THEN RatMul(RatRound(RatDiv(raw, n.step)), n.step) ELSE raw

\* (a slider that stores the value without clamping it)
sliderNoClamp(c, n, value, tin) ==
    LET id == n.id
        track(x, r) ==
            IF x.focus = id /\ (x.mouseDown \cup x.mousePressed) = {"L"}
            THEN sliderValue(x, n, r) ELSE value
        draw(x, r) ==
            drawControlText(
                drawControlFrame(drawControlFrame(x, id, "Base", n.opt),
                                 id, "Button", n.opt), r)
        drag(x, r) == [c |-> popID(draw(x, r)),
                       res |-> IF value # track(x, r) THEN {"Change"} ELSE {},
                       v |-> track(x, r)]
        rest(nt) == IF nt.text THEN [c |-> popID(nt.c), res |-> {}, v |-> value]
                    ELSE drag(control(nt.c, id, n.r, n.opt), layoutRect(nt.c, n.r))
    IN rest(numberTextBox(pushID(c, id), value, id, n.r, tin))

slider(c, n, value, tin) ==
    LET id == n.id
        track(x, r) ==
            clampF(IF x.focus = id /\ (x.mouseDown \cup x.mousePressed) = {"L"}
                   THEN sliderValue(x, n, r) ELSE value, n.lo, n.hi)
        draw(x, r) ==
            drawControlText(
                drawControlFrame(drawControlFrame(x, id, "Base", n.opt),
                                 id, "Button", n.opt), r)
        drag(x, r) == [c |-> popID(draw(x, r)),
                       res |-> IF value # track(x, r) THEN {"Change"} ELSE {},
                       v |-> track(x, r)]
        \* numberTextBox is handed a local copy of the value
        rest(nt) == IF nt.text THEN [c |-> popID(nt.c), res |-> {}, v |-> value]
                    ELSE drag(control(nt.c, id, n.r, n.opt), layoutRect(nt.c, n.r))
    IN rest(numberTextBox(pushID(c, id), value, id, n.r, tin))

number(c, n, value, tin) ==
    LET id == n.id
        track(x) == IF x.focus = id /\ x.mouseDown = {"L"}
                    THEN RatAdd(value, RatMul(RatInt(x.mouseDelta.x), n.step))
                    ELSE value
        draw(x, r) == drawControlText(drawControlFrame(x, id, "Base", n.opt), r)
        drag(x, r) == [c |-> popID(draw(x, r)),
                       res |-> IF track(x) # value THEN {"Change"} ELSE {},
                       v |-> track(x)]
        rest(nt) == IF nt.text THEN [c |-> popID(nt.c), res |-> {}, v |-> nt.v]
                    ELSE drag(control(nt.c, id, n.r, n.opt), layoutRect(nt.c, n.r))
    IN rest(numberTextBox(pushID(c, id), value, id, n.r, tin))

\* (a tree node that does not take the indent back on return)
treeNodeIndentKept(c, by) ==
    [c EXCEPT !.layoutStack[Len(c.layoutStack)].indent = @ + Max(by, 0)]

\* treeNode: the indent of the current layout around the body
treeNodeIndent(c, by) ==
    [c EXCEPT !.layoutStack[Len(c.layoutStack)].indent = @ + by]

-----------------------------------------------------------------------------
(* Container registry *)

bringToFront(c, cnt) ==
    [c EXCEPT !.lastZIndex = @ + 1, !.containers[cnt].zIndex = c.lastZIndex + 1]

\* container: recall the container of this id, or create it (open, in
\* front, head and tail unset); nil (0) for a closed-option container that
\* was never opened.  Returns the Context and the container.
container(c, id, opt) ==
    IF c.containers[id].created THEN [c |-> c, cnt |-> id]
    ELSE IF "Closed" \in opt THEN [c |-> c, cnt |-> 0]
    ELSE [c |-> bringToFront(
                  [c EXCEPT !.containers[id] =
                      [ZeroContainer EXCEPT !.created = TRUE, !.headIdx = -1,
                                            !.tailIdx = -1, !.open = TRUE]], id),
          cnt |-> id]

popContainer(c) ==
    LET cnt == currentContainer(c)
        l == layout(c)
    IN [c EXCEPT !.containers[cnt].contentSize =
                     Pt(l.max.x - l.body.minX, l.max.y - l.body.minY),
                 !.containerStack = PopSeq(@),
                 !.layoutStack = PopSeq(@)]

-----------------------------------------------------------------------------
(* Scrollbars and container bodies *)

\* (a vertical scrollbar that adds the drag and does not clamp)
scrollbarVerticalUnclamped(c, cnt, b, cs) ==
    LET maxscroll == cs.y - Dy(b)
        base == [b EXCEPT !.minX = b.maxX, !.maxX = b.maxX + styleScrollbarSize]
        id == idFromBytes(c, KeyScrollY)
        moved(x) == IF x.focus = id /\ x.mouseDown = {"L"}
                    THEN [x EXCEPT !.containers[cnt].scroll.y =
                              @ + TruncDiv(x.mouseDelta.y * cs.y, Dy(base))]
                    ELSE x
        drawn(x) == drawFrame(drawFrame(x, "ScrollBase"), "ScrollThumb")
        target(x) == IF mouseOver(x, b) THEN [x EXCEPT !.scrollTarget = cnt] ELSE x
    IN IF maxscroll > 0 /\ Dy(b) > 0
       THEN target(drawn(moved(updateControl(c, id, base, {}))))
       ELSE [c EXCEPT !.containers[cnt].scroll.y = 0]

scrollbarVertical(c, cnt, b, cs) ==
    LET maxscroll == cs.y - Dy(b)
        base == [b EXCEPT !.minX = b.maxX, !.maxX = b.maxX + styleScrollbarSize]
        id == idFromBytes(c, KeyScrollY)
        moved(x) == IF x.focus = id /\ x.mouseDown = {"L"}
                    THEN x.containers[cnt].scroll.y
                         + TruncDiv(x.mouseDelta.y * cs.y, Dy(base))
                    ELSE x.containers[cnt].scroll.y
        scrolled(x) ==
            [x EXCEPT !.containers[cnt].scroll.y = clamp(moved(x), 0, maxscroll)]
        drawn(x) == drawFrame(drawFrame(x, "ScrollBase"), "ScrollThumb")
        target(x) == IF mouseOver(x, b) THEN [x EXCEPT !.scrollTarget = cnt] ELSE x
    IN IF maxscroll > 0 /\ Dy(b) > 0
       THEN target(drawn(scrolled(updateControl(c, id, base, {}))))
       ELSE [c EXCEPT !.containers[cnt].scroll.y = 0]

scrollbarHorizontal(c, cnt, b, cs) ==
    LET maxscroll == cs.x - Dx(b)
        base == [b EXCEPT !.minY = b.maxY, !.maxY = b.maxY + styleScrollbarSize]
        id == idFromBytes(c, KeyScrollX)
        moved(x) == IF x.focus = id /\ x.mouseDown = {"L"}
                    THEN x.containers[cnt].scroll.x
                         + TruncDiv(x.mouseDelta.x * cs.x, Dx(base))
                    ELSE x.containers[cnt].scroll.x
        scrolled(x) ==
            [x EXCEPT !.containers[cnt].scroll.x = clamp(moved(x), 0, maxscroll)]
        drawn(x) == drawFrame(drawFrame(x, "ScrollBase"), "ScrollThumb")
        target(x) == IF mouseOver(x, b) THEN [x EXCEPT !.scrollTarget = cnt] ELSE x
    IN IF maxscroll > 0 /\ Dx(b) > 0
       THEN target(drawn(scrolled(updateControl(c, id, base, {}))))
       ELSE [c EXCEPT !.containers[cnt].scroll.x = 0]

\* the body after room is made for the scrollbars
scrollbarsBody(c, cnt, body) ==
    LET cs == c.containers[cnt].contentSize
        csY == cs.y + stylePadding * 2
        csX == cs.x + stylePadding * 2
        b1 == IF csY > Dy(c.containers[cnt].body)
              THEN [body EXCEPT !.maxX = @ - styleScrollbarSize] ELSE body
    IN IF csX > Dx(c.containers[cnt].body)
       THEN [b1 EXCEPT !.maxY = @ - styleScrollbarSize] ELSE b1

scrollbars(c, cnt, body) ==
    LET cs == Pt(c.containers[cnt].contentSize.x + stylePadding * 2,
                 c.containers[cnt].contentSize.y + stylePadding * 2)
        b == scrollbarsBody(c, cnt, body)
        c1 == pushClipRect(c, body)
        c2 == scrollbarVertical(c1, cnt, b, cs)
        c3 == scrollbarHorizontal(c2, cnt, b, cs)
    IN popClipRect(c3)

pushContainerBody(c, cnt, body, opt) ==
    LET scroll == "NoScroll" \notin opt
        b == IF scroll THEN scrollbarsBody(c, cnt, body) ELSE body
        lay(x) == pushLayout(x, RectInset(b, stylePadding), x.containers[cnt].scroll)
        store(x) == [x EXCEPT !.containers[cnt].body = b]
    IN store(lay(IF scroll THEN scrollbars(c, cnt, body) ELSE c))

-----------------------------------------------------------------------------
(* Root containers and panels.  A declaration with a body callback is two  *)
(* steps: everything up to the call of f (or the early return), and the    *)
(* deferred calls that run when f has returned.                            *)

windowTitle(c, cnt, rect, opt) ==
    LET tr == [rect EXCEPT !.maxY = rect.minY + styleTitleHeight]
        id == idFromBytes(c, KeyTitle)
        drag(x) == IF id = x.focus /\ x.mouseDown = {"L"}
                   THEN [x EXCEPT !.containers[cnt].rect = RectAdd(@, x.mouseDelta)]
                   ELSE x
        cid == idFromBytes(c, KeyClose)
        r == Rect(tr.maxX - Dy(tr), tr.minY, tr.maxX, tr.maxY)
        close(x) == IF x.mousePressed = {"L"} /\ cid = x.focus
                    THEN [x EXCEPT !.containers[cnt].open = FALSE] ELSE x
        closeButton(x) == IF "NoClose" \notin opt
                          THEN close(updateControl(drawIcon(x), cid, r, opt))
                          ELSE x
    IN closeButton(drag(drawControlText(
           updateControl(drawFrame(c, "TitleBG"), id, tr, opt), tr)))

windowResize(c, cnt, rect, opt) ==
    LET sz == styleTitleHeight
        id == idFromBytes(c, KeyResize)
        r == Rect(rect.maxX - sz, rect.maxY - sz, rect.maxX, rect.maxY)
        grown(x, cr) ==
            [cr EXCEPT !.maxX = cr.minX + Max(96, Dx(cr) + x.mouseDelta.x),
                       !.maxY = cr.minY + Max(64, Dy(cr) + x.mouseDelta.y)]
        resize(x) == IF id = x.focus /\ x.mouseDown = {"L"}
                     THEN [x EXCEPT !.containers[cnt].rect = grown(x, @)]
                     ELSE x
    IN resize(updateControl(c, id, r, opt))

windowAutoSize(c, cnt) ==
    LET r == layout(c).body
        cr == c.containers[cnt].rect
        cs == c.containers[cnt].contentSize
    IN [c EXCEPT !.containers[cnt].rect =
           [cr EXCEPT !.maxX = cr.minX + cs.x + (Dx(cr) - Dx(r)),
                      !.maxY = cr.minY + cs.y + (Dy(cr) - Dy(r))]]

\* (a popup that any press edge closes)
popupDismissOnPress(c, cnt, opt) ==
    IF "Popup" \in opt /\ c.mousePressed # {}
    THEN [c EXCEPT !.containers[cnt].open = FALSE] ELSE c

\* close if this is a popup window and elsewhere was clicked
popupDismiss(c, cnt, opt) ==
    IF "Popup" \in opt /\ c.mousePressed # {} /\ c.hoverRoot # cnt
    THEN [c EXCEPT !.containers[cnt].open = FALSE] ELSE c

\* (a hover test that lets the root declared last win)
setNextHoverRootLast(c, cnt) ==
    IF PtIn(c.mousePos, c.containers[cnt].rect)
    THEN [c EXCEPT !.nextHoverRoot = cnt] ELSE c

\* set as hover root if the mouse is overlapping this container and it has a
\* higher zindex than the current hover root
setNextHoverRoot(c, cnt) ==
    IF PtIn(c.mousePos, c.containers[cnt].rect)
       /\ (c.nextHoverRoot = 0
           \/ c.containers[cnt].zIndex > c.containers[c.nextHoverRoot].zIndex)
    THEN [c EXCEPT !.nextHoverRoot = cnt] ELSE c

\* window, from its entry to the call of f: entered tells whether f is called
windowOpen(c, cnt, n) ==
    LET opt == n.opt
        place(x) == IF Dx(x.containers[cnt].rect) = 0
                    THEN [x EXCEPT !.containers[cnt].rect = n.r] ELSE x
        push(x) == pushJump([x EXCEPT !.containerStack = Append(@, cnt),
                                      !.rootList = Append(@, cnt),
                                      !.containers[cnt].headIdx = Len(x.commandList)],
                            -1)
        hoverRoot(x) == setNextHoverRoot(x, cnt)
        tested(x) == [x EXCEPT !.log = Append(@, [op |-> "hoverTest", id |-> cnt,
                                                  rect |-> x.containers[cnt].rect])]
        clip(x) == [x EXCEPT !.clipStack = Append(@, unclippedRect)]
        frame(x) == IF "NoFrame" \notin opt THEN drawFrame(x, "WindowBG") ELSE x
        title(x, rect) == IF "NoTitle" \notin opt
                          THEN windowTitle(x, cnt, rect, opt) ELSE x
        bodyOf(rect) == IF "NoTitle" \notin opt
                        THEN [rect EXCEPT !.minY = @ + styleTitleHeight] ELSE rect
        resize(x, rect) == IF "NoResize" \notin opt
                           THEN windowResize(x, cnt, rect, opt) ELSE x
        \* rect := cnt.layout.Rect is read once, before the title is handled
        parts(x, rect) ==
            resize(pushContainerBody(title(frame(x), rect), cnt, bodyOf(rect), opt),
                   rect)
        decorate(x) == parts(x, x.containers[cnt].rect)
        auto(x) == IF "AutoSize" \in opt THEN windowAutoSize(x, cnt) ELSE x
        dismiss(x) == popupDismiss(x, cnt, opt)
        clipBody(x) == pushClipRect(x, x.containers[cnt].body)
    IN clipBody(dismiss(auto(decorate(clip(hoverRoot(tested(push(place(c)))))))))

\* if cnt == nil || !cnt.open
\* (a window that looks at nil alone)
isNil(c, cnt) == cnt = 0

isClosed(c, cnt) == cnt = 0 \/ ~c.containers[cnt].open

\* (an early return that leaves the id on the stack)
windowSkipKeepID(c, n) == c

\* the early return: the deferred popID
windowSkip(c, n) == DropID(c, n.id)

windowEnter(c, n) ==
    LET got == container(WithID(c, n.id), n.id, n.opt)
    IN IF isClosed(got.c, got.cnt)
       THEN [c |-> windowSkip(got.c, n), entered |-> FALSE]
       ELSE [c |-> windowOpen(got.c, got.cnt, n), entered |-> TRUE]

\* (deferred calls that aim the head jump at the tail jump itself)
windowExitOntoTail(c, n) ==
    LET c1 == popClipRect(popClipRect(c))
        cnt == currentContainer(c1)
        c2 == pushJump([c1 EXCEPT !.containers[cnt].tailIdx = Len(c1.commandList)], -1)
        c3 == [c2 EXCEPT !.commandList[c2.containers[cnt].headIdx + 1].dst =
                             Len(c2.commandList) - 1]
    IN DropID(popContainer(c3), n.id)

\* the deferred calls of window, last registered first
windowExit(c, n) ==
    LET c1 == popClipRect(popClipRect(c))
        cnt == currentContainer(c1)
        c2 == pushJump([c1 EXCEPT !.containers[cnt].tailIdx = Len(c1.commandList)], -1)
        c3 == [c2 EXCEPT !.commandList[c2.containers[cnt].headIdx + 1].dst =
                             Len(c2.commandList)]
    IN DropID(popContainer(c3), n.id)

panelEnter(c, n) ==
    LET got == container(pushID(c, n.id), n.id, n.opt)
        cnt == got.cnt
        place(x) == [layoutNext(x, n.r) EXCEPT
                        !.containers[cnt].rect = layoutRect(x, n.r)]
        frame(x) == IF "NoFrame" \notin n.opt THEN drawFrame(x, "PanelBG") ELSE x
        push(x) == [x EXCEPT !.containerStack = Append(@, cnt)]
        body(x) == pushContainerBody(x, cnt, x.containers[cnt].rect, n.opt)
        clipBody(x) == pushClipRect(x, x.containers[cnt].body)
    IN clipBody(body(push(frame(place(got.c)))))

panelExit(c, n) == popID(popContainer(popClipRect(c)))

\* (an OpenPopup that leaves the current hover root alone)
OpenPopupNextOnly(c, n) ==
    LET got == container(c, n.id, {})
        cnt == got.cnt
        c1 == [got.c EXCEPT !.nextHoverRoot = cnt]
        mp == c1.mousePos
        c2 == [c1 EXCEPT !.containers[cnt].rect = Rect(mp.x, mp.y, mp.x + 1, mp.y + 1),
                         !.containers[cnt].open = TRUE]
    IN bringToFront(c2, cnt)

OpenPopup(c, n) ==
    LET got == container(c, n.id, {})
        cnt == got.cnt
        c1 == [got.c EXCEPT !.nextHoverRoot = cnt, !.hoverRoot = cnt]
        mp == c1.mousePos
        c2 == [c1 EXCEPT !.containers[cnt].rect = Rect(mp.x, mp.y, mp.x + 1, mp.y + 1),
                         !.containers[cnt].open = TRUE]
    IN bringToFront(c2, cnt)

\* container.SetOpen on the container WindowContainer returns
SetOpen(c, id, state) ==
    LET got == container(c, id, {})
    IN [got.c EXCEPT !.containers[got.cnt].open = state]

-----------------------------------------------------------------------------
(* Input and the frame *)

inputMouseMove(c, p) == [c EXCEPT !.mousePos = p]
inputMouseDown(c, btn) ==
    [c EXCEPT !.mouseDown = @ \cup {btn}, !.mousePressed = @ \cup {btn}]
inputMouseUp(c, btn) == [c EXCEPT !.mouseDown = @ \ {btn}]
inputKeyDown(c, k) == [c EXCEPT !.keyPressed = @ \cup {k}, !.keyDown = @ \cup {k}]
inputKeyUp(c, k) == [c EXCEPT !.keyDown = @ \ {k}]

InputEvents == {"none", "press", "release"}

\* what inpututil can report for a button or key whose held state is down
Possible(ev, down) ==
    \/ ev = "none"
    \/ ev = "press" /\ ~down
    \/ ev = "release" /\ down

inputButton(c, btn, ev) ==
    IF ev = "press" THEN inputMouseDown(c, btn)
    ELSE IF ev = "release" THEN inputMouseUp(c, btn)
    ELSE c

inputKey(c, k, ev) ==
    IF ev = "press" THEN inputKeyDown(c, k)
    ELSE IF ev = "release" THEN inputKeyUp(c, k)
    ELSE c

\* updateInput: cursor, left button, right button, then the keys
updateInput(c, p, evL, evR, evShift, evEnter, evBack) ==
    inputKey(inputKey(inputKey(
        inputButton(inputButton(inputMouseMove(c, p), "L", evL), "R", evR),
        "Shift", evShift), "Enter", evEnter), "Backspace", evBack)

begin(c) ==
    [c EXCEPT !.commandList = <<>>, !.rootList = <<>>, !.scrollTarget = 0,
              !.hoverRoot = c.nextHoverRoot, !.nextHoverRoot = 0,
              !.mouseDelta = Pt(c.mousePos.x - c.lastMousePos.x,
                                c.mousePos.y - c.lastMousePos.y),
              !.tick = @ + 1]

\* the root list in ascending z order (insertion sort)
RECURSIVE insertByZ(_, _, _)
insertByZ(c, sorted, w) ==
    IF Len(sorted) = 0 THEN <<w>>
    ELSE IF c.containers[Top(sorted)].zIndex <= c.containers[w].zIndex
         THEN Append(sorted, w)
         ELSE Append(insertByZ(c, PopSeq(sorted), w), Top(sorted))

RECURSIVE sortByZ(_, _)
sortByZ(c, list) ==
    IF Len(list) = 0 THEN <<>>
    ELSE insertByZ(c, sortByZ(c, PopSeq(list)), Top(list))

\* the jumps of the sorted root list: each tail to the next head, the last
\* tail to the end of the list, the first command to the first head
RECURSIVE setJumps(_, _, _)
setJumps(c, roots, i) ==
    IF i > Len(roots) THEN c
    ELSE LET cnt == c.containers[roots[i]]
             c1 == IF i = 1
                   THEN [c EXCEPT !.commandList[1].dst = cnt.headIdx + 1]
                   ELSE [c EXCEPT !.commandList[c.containers[roots[i - 1]].tailIdx + 1].dst =
                                      cnt.headIdx + 1]
             c2 == IF i = Len(roots)
                   THEN [c1 EXCEPT !.commandList[cnt.tailIdx + 1].dst = Len(c1.commandList)]
                   ELSE c1
         IN setJumps(c2, roots, i + 1)

end(c) ==
    LET c1 == [c EXCEPT !.focus = IF c.keepFocus THEN @ ELSE 0, !.keepFocus = FALSE]
        nh == c1.nextHoverRoot
        c2 == IF c1.mousePressed # {} /\ nh # 0
                 /\ c1.containers[nh].zIndex < c1.lastZIndex
                 /\ c1.containers[nh].zIndex >= 0
              THEN bringToFront(c1, nh) ELSE c1
        c3 == [c2 EXCEPT !.keyPressed = {}, !.mousePressed = {},
                         !.lastMousePos = c2.mousePos]
        c4 == [c3 EXCEPT !.rootList = sortByZ(c3, c3.rootList)]
    IN setJumps(c4, c4.rootList, 1)

-----------------------------------------------------------------------------
(* The host application: declaration programs *)

\* a scene entry; var names the bound value, lo/hi/step are a slider's or
\* a number's parameters
NV(op, id, r, opt, var, lo, hi, step) ==
    [op |-> op, id |-> id, r |-> r, opt |-> opt, label |-> id # 0,
     var |-> var, lo |-> lo, hi |-> hi, step |-> step]
N(op, id, r, opt) == NV(op, id, r, opt, "", RatInt(0), RatInt(0), RatInt(0))
EndNode == N("end", 0, ZR, {})

Plain == {"NoTitle", "NoClose", "NoResize", "NoScroll"}

\* "pool": one window with PoolSize + 1 headers, one more than the
\* tree-node pool has slots
HeaderRow(i) == Rect(0, 20 * (i - 1), 110, 20 * (i - 1) + 16)
PoolScene ==
    <<N("window", 1, Rect(0, 0, 120, 20 * PoolSize + 40), Plain)>>
    \o [i \in 1 .. PoolSize + 1 |-> N("header", 10 + i, HeaderRow(i), {})]
    \o <<EndNode>>
PoolPts == {Pt(10, 10 + 20 * (i - 1)) : i \in 1 .. PoolSize + 1}

\* "ctl": a window (1) with a button (11) and a text box (12) that overlap
\* and a panel (2) holding a button (13) that reaches below the panel's
\* body; a second window (3) with a button (14) lies over the right part of
\* the first
CtlScene ==
    <<N("window", 1, Rect(0, 0, 100, 100), Plain),
      N("button", 11, Rect(0, 0, 40, 20), {}),
      NV("textbox", 12, Rect(30, 0, 70, 20), {}, "buf", RatInt(0), RatInt(0), RatInt(0)),
      N("panel", 2, Rect(0, 30, 90, 70), {"NoScroll"}),
      N("button", 13, Rect(0, 20, 40, 50), {}),
      EndNode,
      EndNode,
      N("window", 3, Rect(60, 0, 160, 100), Plain),
      N("button", 14, Rect(0, 40, 40, 60), {}),
      EndNode>>
CtlPts == {Pt(10, 10), Pt(40, 10), Pt(65, 10), Pt(20, 65), Pt(20, 80),
           Pt(70, 50), Pt(200, 200)}

\* "drag": a window with a slider (21) over 0 .. 10 and a text box (22)
DragScene ==
    <<N("window", 1, Rect(0, 0, 120, 80), Plain),
      NV("slider", 21, Rect(0, 0, 100, 20), {}, "val", RatInt(0), RatInt(10), RatInt(0)),
      NV("textbox", 22, Rect(0, 30, 100, 50), {}, "buf", RatInt(0), RatInt(0), RatInt(0)),
      EndNode>>
DragPts == {Pt(30, 10), Pt(80, 10), Pt(55, 65), Pt(30, 40), Pt(200, 200)}

\* c.Popup: the options of a popup
PopupOpt == {"Popup", "AutoSize", "NoResize", "NoScroll", "NoTitle", "Closed"}

\* "win": a titled window (4) with a close button, which the application
\* also opens and closes with SetOpen, and a window (1) holding a button (19)
\* that opens the popup (3) declared after it
WinScene ==
    <<N("window", 4, Rect(60, 0, 160, 60), {"NoResize", "NoScroll"}),
      N("button", 21, Rect(0, 0, 40, 20), {}),
      EndNode,
      N("window", 1, Rect(0, 0, 100, 60), Plain),
      N("button", 19, Rect(0, 0, 40, 20), {}),
      N("openpopup", 3, ZR, {}),
      N("popup", 3, ZR, PopupOpt),
      N("button", 20, Rect(0, 0, 30, 10), {}),
      EndNode,
      EndNode>>
WinPts == {Pt(10, 10), Pt(150, 10), Pt(300, 300)}

\* "all": the two windows and the popup of "win", the lower window holding
\* also a slider, a number, a text box, a checkbox, an expanded tree node
\* with a label, and a scrolling panel (2) with a button taller than the
\* panel
AllScene ==
    <<N("window", 4, Rect(60, 0, 160, 60), {"NoResize", "NoScroll"}),
      N("button", 21, Rect(0, 0, 40, 20), {}),
      EndNode,
      N("window", 1, Rect(0, 0, 100, 230), Plain),
      N("button", 19, Rect(0, 0, 40, 20), {}),
      N("openpopup", 3, ZR, {}),
      N("popup", 3, ZR, PopupOpt),
      N("button", 20, Rect(0, 0, 30, 10), {}),
      EndNode,
      NV("slider", 14, Rect(0, 30, 80, 50), {}, "val", RatInt(0), RatInt(10), RatInt(0)),
      NV("number", 15, Rect(0, 60, 80, 80), {}, "num", RatInt(0), RatInt(0), RatInt(0)),
      NV("textbox", 13, Rect(0, 90, 80, 110), {}, "buf", RatInt(0), RatInt(0), RatInt(0)),
      NV("checkbox", 12, Rect(0, 120, 80, 140), {}, "chk", RatInt(0), RatInt(0), RatInt(0)),
      N("treenode", 17, Rect(0, 150, 80, 170), {"Expanded"}),
      N("label", 0, Rect(0, 170, 80, 180), {}),
      EndNode,
      N("panel", 2, Rect(0, 185, 80, 220), {}),
      N("button", 18, Rect(0, 0, 40, 60), {}),
      EndNode,
      EndNode>>
AllPts == {Pt(10, 10), Pt(45, 40), Pt(20, 70), Pt(20, 100)}

\* "slide": a window with two sliders over 0 .. 10, the first (21) without
\* a step, the second (23) with step 1, both bound to 5
SlideScene ==
    <<N("window", 1, Rect(0, 0, 120, 80), Plain),
      NV("slider", 21, Rect(0, 0, 100, 20), {}, "val", RatInt(0), RatInt(10), RatInt(0)),
      NV("slider", 23, Rect(0, 30, 100, 50), {}, "val2", RatInt(0), RatInt(10), RatInt(1)),
      EndNode>>
SlidePts == {Pt(80, 10), Pt(80, 40), Pt(32, 40), Pt(200, 200)}

\* "text": a window with a text box (12) bound to "abc" and a button (11)
\* declared after it
TextScene ==
    <<N("window", 1, Rect(0, 0, 100, 80), Plain),
      NV("textbox", 12, Rect(0, 0, 80, 20), {}, "buf", RatInt(0), RatInt(0), RatInt(0)),
      N("button", 11, Rect(0, 30, 40, 50), {}),
      EndNode>>
TextPts == {Pt(10, 10), Pt(10, 40)}

\* "num": a window with a number field (15) bound to 5
NumScene ==
    <<N("window", 1, Rect(0, 0, 100, 60), Plain),
      NV("number", 15, Rect(0, 0, 80, 20), {}, "num", RatInt(0), RatInt(0), RatInt(1)),
      EndNode>>
NumPts == {Pt(10, 10), Pt(12, 10), Pt(200, 200)}

\* "edit": a window with a number field (15) bound to 5 and a slider (21)
\* over 0 .. 10 bound to 5, both open to text entry
EditScene ==
    <<N("window", 1, Rect(0, 0, 120, 80), Plain),
      NV("number", 15, Rect(0, 0, 80, 20), {}, "num", RatInt(0), RatInt(0), RatInt(1)),
      NV("slider", 21, Rect(0, 30, 100, 50), {}, "val", RatInt(0), RatInt(10), RatInt(0)),
      EndNode>>
EditPts == {Pt(10, 10), Pt(10, 40)}

\* "clamp": a window with two sliders over 0 .. 10 whose bound values start
\* outside the range: the first (21) without a step, bound to 12, the second
\* (23) with step 3, bound to -2
ClampScene ==
    <<N("window", 1, Rect(0, 0, 120, 80), Plain),
      NV("slider", 21, Rect(0, 0, 100, 20), {}, "val", RatInt(0), RatInt(10), RatInt(0)),
      NV("slider", 23, Rect(0, 30, 100, 50), {}, "val2", RatInt(0), RatInt(10), RatInt(3)),
      EndNode>>
ClampPts == {Pt(80, 10), Pt(80, 40), Pt(200, 40)}

\* "anon": a window with a header declared with an empty label and an empty
\* id string, whose controlID is 0, followed by PoolSize headers with ids
AnonScene ==
    <<N("window", 1, Rect(0, 0, 120, 20 * PoolSize + 40), Plain),
      N("header", 0, HeaderRow(1), {})>>
    \o [i \in 1 .. PoolSize |-> N("header", 10 + i, HeaderRow(i + 1), {})]
    \o <<EndNode>>

\* "tree": a window with a tree node (11) that holds an expanded-by-default
\* tree node (12) with a button (21), and a second expanded-by-default tree
\* node (13) with a button (22)
TreeScene ==
    <<N("window", 1, Rect(0, 0, 200, 120), Plain),
      N("treenode", 11, HeaderRow(1), {}),
      N("treenode", 12, HeaderRow(2), {"Expanded"}),
      N("button", 21, Rect(0, 40, 40, 56), {}),
      EndNode,
      EndNode,
      N("treenode", 13, HeaderRow(4), {"Expanded"}),
      N("button", 22, Rect(0, 80, 40, 96), {}),
      EndNode,
      EndNode>>
TreePts == {Pt(10, 10), Pt(40, 30), Pt(10, 70)}

\* "hover": a titled window (4) with a close button, which the user can
\* drag, and a window (1) that lies over its left part
HoverScene ==
    <<N("window", 4, Rect(60, 0, 160, 60), {"NoResize", "NoScroll"}),
      N("button", 21, Rect(0, 0, 40, 20), {}),
      EndNode,
      N("window", 1, Rect(0, 0, 100, 60), Plain),
      N("button", 19, Rect(0, 0, 40, 20), {}),
      EndNode>>
HoverPts == {Pt(10, 10), Pt(80, 10), Pt(150, 10), Pt(300, 300)}

\* "nest": a window (1) with a panel (2) that holds a panel (5) with a
\* button (31), and a button (19) that opens the popup (3) declared after
\* it, which holds a panel (4) with a button (32)
NestScene ==
    <<N("window", 1, Rect(0, 0, 120, 120), Plain),
      N("panel", 2, Rect(0, 0, 80, 50), {"NoScroll"}),
      N("panel", 5, Rect(0, 0, 60, 30), {"NoScroll"}),
      N("button", 31, Rect(0, 0, 40, 20), {}),
      EndNode,
      EndNode,
      N("button", 19, Rect(0, 60, 40, 80), {}),
      N("openpopup", 3, ZR, {}),
      N("popup", 3, ZR, PopupOpt),
      N("panel", 4, Rect(0, 0, 50, 30), {"NoScroll"}),
      N("button", 32, Rect(0, 0, 30, 20), {}),
      EndNode,
      EndNode,
      EndNode>>
NestPts == {Pt(20, 20), Pt(10, 70), Pt(20, 85)}

\* "btn": a window with a button (11) and a button declared with an empty
\* label and an empty id string, whose controlID is 0
BtnScene ==
    <<N("window", 1, Rect(0, 0, 100, 100), Plain),
      N("button", 11, Rect(0, 0, 40, 20), {}),
      N("button", 0, Rect(0, 30, 40, 50), {}),
      EndNode>>
BtnPts == {Pt(10, 10), Pt(10, 40), Pt(200, 200)}

\* "chk": a window with a checkbox (12)
ChkScene ==
    <<N("window", 1, Rect(0, 0, 100, 60), Plain),
      NV("checkbox", 12, Rect(0, 0, 80, 20), {}, "chk", RatInt(0), RatInt(0), RatInt(0)),
      EndNode>>
ChkPts == {Pt(10, 10), Pt(200, 200)}

\* "scroll": a scrolling window (1) with four scrolling panels: (2) holds a
\* button taller than the panel, (3) a button wider than the panel, (4) a
\* button that fits, (5) has no height; after the panels the application
\* may assign a scroll offset to one of the containers
ScrollScene ==
    <<N("window", 1, Rect(0, 0, 120, 200), {"NoTitle", "NoClose", "NoResize"}),
      N("panel", 2, Rect(0, 0, 60, 50), {}),
      N("button", 31, Rect(0, 0, 30, 100), {}),
      EndNode,
      N("panel", 3, Rect(0, 60, 60, 110), {}),
      N("button", 32, Rect(0, 0, 100, 20), {}),
      EndNode,
      N("panel", 4, Rect(0, 120, 60, 160), {}),
      N("button", 33, Rect(0, 0, 30, 20), {}),
      EndNode,
      N("panel", 5, Rect(70, 0, 110, 0), {}),
      N("button", 34, Rect(0, 0, 20, 20), {}),
      EndNode,
      N("setscroll", 0, ZR, {}),
      EndNode>>
ScrollPts == {Pt(58, 20), Pt(58, 40), Pt(20, 108), Pt(45, 108)}

\* the offsets the application assigns besides the content size
ScrollVals == {Pt(-7, -7), Pt(13, 13), Pt(1000, 1000)}

Scene(a) ==
    CASE a = "pool" -> PoolScene
      [] a = "ctl" -> CtlScene
      [] a = "drag" -> DragScene
      [] a = "win" -> WinScene
      [] a = "all" -> AllScene
      [] a = "scroll" -> ScrollScene
      [] a = "chk" -> ChkScene
      [] a = "btn" -> BtnScene
      [] a = "tree" -> TreeScene
      [] a = "anon" -> AnonScene
      [] a = "clamp" -> ClampScene
      [] a = "edit" -> EditScene
      [] a = "nest" -> NestScene
      [] a = "hover" -> HoverScene
      [] a = "num" -> NumScene
      [] a = "text" -> TextScene
      [] a = "slide" -> SlideScene

MousePts(a) ==
    CASE a = "pool" -> PoolPts
      [] a = "ctl" -> CtlPts
      [] a = "drag" -> DragPts
      [] a = "win" -> WinPts
      [] a = "all" -> AllPts
      [] a = "scroll" -> ScrollPts
      [] a = "chk" -> ChkPts
      [] a = "btn" -> BtnPts
      [] a = "tree" -> TreePts
      [] a = "anon" -> PoolPts
      [] a = "clamp" -> ClampPts
      [] a = "edit" -> EditPts
      [] a = "nest" -> NestPts
      [] a = "hover" -> HoverPts
      [] a = "num" -> NumPts
      [] a = "text" -> TextPts
      [] a = "slide" -> SlidePts

\* the buttons and keys the user operates in front of each program
Inputs(a) ==
    CASE a = "pool" -> {"L"}
      [] a = "ctl" -> {"L", "R"}
      [] a = "drag" -> {"L"}
      [] a = "win" -> {"L"}
      [] a = "all" -> {"L", "Shift"}
      [] a = "scroll" -> {"L"}
      [] a = "chk" -> {"L", "R"}
      [] a = "btn" -> {"L"}
      [] a = "tree" -> {"L"}
      [] a = "anon" -> {"L"}
      [] a = "clamp" -> {"L", "Shift"}
      [] a = "edit" -> {"L", "Shift", "Enter"}
      [] a = "nest" -> {"L"}
      [] a = "hover" -> {"L"}
      [] a = "num" -> {"L", "Shift", "Enter"}
      [] a = "text" -> {"L", "Enter", "Backspace"}
      [] a = "slide" -> {"L", "R", "Shift"}

\* what the text-composition service may report in a frame
TextIns(a) ==
    CASE a = "all" -> {NoText, [NoText EXCEPT !.err = TRUE]}
      [] a = "text" -> {NoText, [NoText EXCEPT !.err = TRUE],
                        [NoText EXCEPT !.typed = "x"],
                        [NoText EXCEPT !.handled = TRUE]}
      [] a = "num" -> {NoText, [NoText EXCEPT !.typed = "x"],
                       [NoText EXCEPT !.typed = "7"]}
      [] a = "edit" -> {NoText, [NoText EXCEPT !.typed = "7"]}
      [] OTHER -> {NoText}

\* the windows the application opens and closes with SetOpen
Togglable(a) == IF a \in {"win", "all"} THEN {4} ELSE {}

InitVals(a) ==
    CASE a = "pool" -> <<>>
      [] a = "ctl" -> [buf |-> <<>>]
      [] a = "drag" -> [val |-> RatInt(0), buf |-> <<>>]
      [] a = "win" -> <<>>
      [] a = "scroll" -> <<>>
      [] a = "chk" -> [chk |-> FALSE]
      [] a = "btn" -> <<>>
      [] a = "tree" -> <<>>
      [] a = "anon" -> <<>>
      [] a = "clamp" -> [val |-> RatInt(12), val2 |-> RatInt(-2)]
      [] a = "edit" -> [num |-> RatInt(5), val |-> RatInt(5)]
      [] a = "nest" -> <<>>
      [] a = "hover" -> <<>>
      [] a = "num" -> [num |-> RatInt(5)]
      [] a = "text" -> [buf |-> <<"a", "b", "c">>]
      [] a = "slide" -> [val |-> RatInt(5), val2 |-> RatInt(5)]
      [] a = "all" -> [val |-> RatInt(0), num |-> RatInt(0), buf |-> <<>>,
                       chk |-> FALSE]

\* frames per behaviour: the pool program needs two frames per click, a
\* popup six frames to be opened, dismissed and skipped, a text box six
\* frames to be focused, submitted, focused again and left alone
FrameCap(a) ==
    CASE a = "pool" -> 2 * PoolSize + 3
      [] a = "all" -> MaxFrames - 1
      [] a = "scroll" -> MaxFrames - 1
      [] a = "win" -> MaxFrames + 1
      [] a = "text" -> MaxFrames + 1
      [] a = "tree" -> MaxFrames + 2
      [] OTHER -> MaxFrames

Events(a, what) == IF what \in Inputs(a) THEN InputEvents ELSE {"none"}

Openers == {"window", "popup", "panel", "treenode"}

\* the index of the "end" entry that closes the container opened at i
RECURSIVE matchEndScan(_, _, _)
matchEndScan(scene, i, depth) ==
    IF scene[i].op = "end"
    THEN IF depth = 0 THEN i ELSE matchEndScan(scene, i + 1, depth - 1)
    ELSE IF scene[i].op \in Openers THEN matchEndScan(scene, i + 1, depth + 1)
    ELSE matchEndScan(scene, i + 1, depth)
MatchEnd(scene, i) == matchEndScan(scene, i + 1, 0)

-----------------------------------------------------------------------------
(* Actions *)

Node == Scene(app)[pc]
InFrame == pc >= 1 /\ pc <= Len(Scene(app)) /\ ~ctx.panicked
At(op) == InFrame /\ Node.op = op
Clear(c) == [c EXCEPT !.log = <<>>]
Caller == Scene(app)[Top(calls)]

\* the containers that exist
Created(c) == {k \in CntIds : c.containers[k].created}

\* the containers the application declares as windows or popups
RootIds == {Scene(app)[i].id : i \in {j \in 1 .. Len(Scene(app)) :
                                        Scene(app)[j].op \in {"window", "popup"}}}

\* the innermost window or popup of a container stack, 0 when there is none
RECURSIVE NearestRoot(_)
NearestRoot(stack) ==
    IF stack = <<>> THEN 0
    ELSE IF Top(stack) \in RootIds THEN Top(stack)
    ELSE NearestRoot(PopSeq(stack))

\* the mouse is over the control of an updateControl call: the position is
\* inside the rectangle and the clip rectangle, and the innermost root
\* container of the call is the hover root; it rests there when no button is
\* down
IsOver(c, e) ==
    /\ PtIn(c.mousePos, e.rect)
    /\ PtIn(c.mousePos, e.clip)
    /\ c.hoverRoot # 0
    /\ NearestRoot(e.stack) = c.hoverRoot

RestsOn(c, e) == c.mouseDown = {} /\ IsOver(c, e)

RECURSIVE trackScan(_, _, _)
trackScan(over, c, k) ==
    IF k > Len(c.log) THEN over
    ELSE LET e == c.log[k]
             hit == e.op = "updateControl" /\ "NoInteract" \notin e.opt
                    /\ RestsOn(c, e)
                    /\ (over = <<>> \/ over[Len(over)] # e.id)
         IN trackScan(IF hit THEN Append(over, e.id) ELSE over, c, k + 1)

Track(c) == [hist EXCEPT !.over = trackScan(@, c, 1)]

\* the root containers a declaration has tested against the mouse, each
\* with the rectangle it was tested with
HoverTests(c) ==
    {[id |-> c.log[k].id, rect |-> c.log[k].rect] :
        k \in {j \in 1 .. Len(c.log) : c.log[j].op = "hoverTest"}}

\* a declaration returns: the Context and the Response, and for a widget
\* bound to a value of the application the value
Returns(got) == ctx' = got.c /\ resp' = got.res
ReturnsValue(got) ==
    ctx' = got.c /\ resp' = got.res /\ vals' = [vals EXCEPT ![Node.var] = got.v]

\* Update: updateInput, begin; the declarations follow
BeginFrame ==
    /\ pc = 0 /\ ~ctx.panicked /\ ctx.tick < FrameCap(app)
    /\ \E p \in MousePts(app), evL \in Events(app, "L"), evR \in Events(app, "R"),
          evS \in Events(app, "Shift"), evE \in Events(app, "Enter"),
          evB \in Events(app, "Backspace") :
          /\ Possible(evL, "L" \in ctx.mouseDown)
          /\ Possible(evR, "R" \in ctx.mouseDown)
          /\ Possible(evS, "Shift" \in ctx.keyDown)
          /\ Possible(evE, "Enter" \in ctx.keyDown)
          /\ Possible(evB, "Backspace" \in ctx.keyDown)
          /\ ctx' = begin(updateInput(Clear(ctx), p, evL, evR, evS, evE, evB))
    /\ pc' = 1 /\ ran' = {} /\ resp' = {}
    /\ hist' = [over |-> <<>>, prev |-> hist.over, opened |-> {}, seen |-> {}]
    /\ UNCHANGED <<app, calls, vals>>

\* between frames the application calls WindowContainer(name).SetOpen(state)
AppSetOpen ==
    /\ pc = 0 /\ ~ctx.panicked
    /\ \E w \in Togglable(app), state \in BOOLEAN :
          ctx' = SetOpen(Clear(ctx), w, state)
    /\ UNCHANGED <<app, pc, calls, vals, resp, ran, hist>>

EndFrame ==
    /\ pc = Len(Scene(app)) + 1 /\ ~ctx.panicked
    /\ ctx' = end(Clear(ctx))
    /\ pc' = 0
    /\ UNCHANGED <<app, calls, vals, resp, ran, hist>>

DeclWindow ==
    /\ At("window") \/ At("popup")
    /\ LET return(got) ==
             /\ ctx' = got.c
             /\ IF got.entered
                THEN pc' = pc + 1 /\ calls' = Append(calls, pc) /\ ran' = ran \cup {pc}
                ELSE pc' = MatchEnd(Scene(app), pc) + 1 /\ UNCHANGED <<calls, ran>>
             /\ resp' = IF got.entered THEN {"Active"} ELSE {}
       IN return(windowEnter(Clear(ctx), Node))
    /\ UNCHANGED <<app, vals>>
    /\ hist' = [Track(ctx') EXCEPT !.seen = @ \cup HoverTests(ctx')]

EndWindow ==
    /\ At("end") /\ Caller.op \in {"window", "popup"}
    /\ ctx' = windowExit(Clear(ctx), Caller)
    /\ pc' = pc + 1 /\ calls' = PopSeq(calls) /\ resp' = {}
    /\ UNCHANGED <<app, vals, ran>>
    /\ hist' = Track(ctx')

DeclButton ==
    /\ At("button")
    /\ Returns(button(Clear(ctx), Node))
    /\ pc' = pc + 1
    /\ UNCHANGED <<app, calls, vals, ran>>
    /\ hist' = Track(ctx')

DeclLabel ==
    /\ At("label")
    /\ Returns(label(Clear(ctx), Node))
    /\ pc' = pc + 1
    /\ UNCHANGED <<app, calls, vals, ran>>
    /\ hist' = Track(ctx')

DeclCheckbox ==
    /\ At("checkbox")
    /\ ReturnsValue(Checkbox(Clear(ctx), Node, vals[Node.var]))
    /\ pc' = pc + 1
    /\ UNCHANGED <<app, calls, ran>>
    /\ hist' = Track(ctx')

DeclTextBox ==
    /\ At("textbox")
    /\ \E tin \in TextIns(app) :
         ReturnsValue(textBox(Clear(ctx), Node, vals[Node.var], tin))
    /\ pc' = pc + 1
    /\ UNCHANGED <<app, calls, ran>>
    /\ hist' = Track(ctx')

DeclSlider ==
    /\ At("slider")
    /\ \E tin \in TextIns(app) :
         ReturnsValue(slider(Clear(ctx), Node, vals[Node.var], tin))
    /\ pc' = pc + 1
    /\ UNCHANGED <<app, calls, ran>>
    /\ hist' = Track(ctx')

DeclNumber ==
    /\ At("number")
    /\ \E tin \in TextIns(app) :
         ReturnsValue(number(Clear(ctx), Node, vals[Node.var], tin))
    /\ pc' = pc + 1
    /\ UNCHANGED <<app, calls, ran>>
    /\ hist' = Track(ctx')

DeclPanel ==
    /\ At("panel")
    /\ ctx' = panelEnter(Clear(ctx), Node)
    /\ pc' = pc + 1 /\ calls' = Append(calls, pc) /\ ran' = ran \cup {pc}
    /\ resp' = {}
    /\ UNCHANGED <<app, vals>>
    /\ hist' = Track(ctx')

EndPanel ==
    /\ At("end") /\ Caller.op = "panel"
    /\ ctx' = panelExit(Clear(ctx), Caller)
    /\ pc' = pc + 1 /\ calls' = PopSeq(calls) /\ resp' = {}
    /\ UNCHANGED <<app, vals, ran>>
    /\ hist' = Track(ctx')

\* treeNode: the header, then the body when the header is active
DeclTreeNode ==
    /\ At("treenode")
    /\ LET return(got) ==
             /\ resp' = got.res
             /\ IF "Active" \in got.res /\ ~got.c.panicked
                THEN /\ ctx' = treeNodeIndent(got.c, styleIndent)
                     /\ pc' = pc + 1 /\ calls' = Append(calls, pc)
                     /\ ran' = ran \cup {pc}
                ELSE /\ ctx' = got.c
                     /\ pc' = MatchEnd(Scene(app), pc) + 1 /\ UNCHANGED <<calls, ran>>
       IN return(header(Clear(ctx), Node, TRUE))
    /\ UNCHANGED <<app, vals>>
    /\ hist' = Track(ctx')

EndTreeNode ==
    /\ At("end") /\ Caller.op = "treenode"
    /\ ctx' = treeNodeIndent(Clear(ctx), -styleIndent)
    /\ pc' = pc + 1 /\ calls' = PopSeq(calls) /\ resp' = {}
    /\ UNCHANGED <<app, vals, ran>>
    /\ hist' = Track(ctx')

\* if Button(...) != 0 { OpenPopup(name) }
DeclOpenPopup ==
    /\ At("openpopup")
    /\ ctx' = IF resp # {} THEN OpenPopup(Clear(ctx), Node) ELSE Clear(ctx)
    /\ pc' = pc + 1 /\ resp' = {}
    /\ UNCHANGED <<app, calls, vals, ran>>
    /\ hist' = [Track(ctx') EXCEPT
                   !.opened = IF resp # {} THEN @ \cup {Node.id} ELSE @]

\* if g.logUpdated { panel.Scroll.Y = panel.ContentSize.Y }: the application
\* assigns the scroll offset of a container after declaring it
DeclSetScroll ==
    /\ At("setscroll")
    /\ \/ ctx' = Clear(ctx)
       \/ \E w \in Created(ctx) :
             \E v \in ScrollVals \cup {ctx.containers[w].contentSize} :
                ctx' = [Clear(ctx) EXCEPT !.containers[w].scroll = v]
    /\ pc' = pc + 1 /\ resp' = {}
    /\ UNCHANGED <<app, calls, vals, ran>>
    /\ hist' = Track(ctx')

DeclHeader ==
    /\ At("header")
    /\ Returns(header(Clear(ctx), Node, FALSE))
    /\ pc' = pc + 1
    /\ UNCHANGED <<app, calls, vals, ran>>
    /\ hist' = Track(ctx')

-----------------------------------------------------------------------------
(* Specifications *)

InitApp(a) ==
    /\ ctx = InitCtx /\ app = a /\ pc = 0 /\ calls = <<>>
    /\ vals = InitVals(a) /\ resp = {} /\ ran = {}
    /\ hist = [over |-> <<>>, prev |-> <<>>, opened |-> {}, seen |-> {}]

\* the tree-node pool under header clicks
InitPool == InitApp("pool")
NextPool == BeginFrame \/ DeclWindow \/ DeclHeader \/ EndWindow \/ EndFrame
SpecPool == InitPool /\ [][NextPool]_vars

\* hover and focus of overlapping and clipped controls
InitCtl == InitApp("ctl")
NextCtl ==
    \/ BeginFrame \/ DeclWindow \/ DeclButton \/ DeclTextBox \/ DeclPanel
    \/ EndPanel \/ EndWindow \/ EndFrame
SpecCtl == InitCtl /\ [][NextCtl]_vars

\* windows that close and open, and a popup
InitWin == InitApp("win")
NextWin ==
    \/ BeginFrame \/ AppSetOpen \/ DeclWindow \/ EndWindow \/ DeclButton
    \/ DeclOpenPopup \/ EndFrame
SpecWin == InitWin /\ [][NextWin]_vars

\* every kind of widget, with text entry
InitAll == InitApp("all")
NextAll ==
    \/ BeginFrame \/ AppSetOpen \/ DeclWindow \/ EndWindow \/ DeclButton
    \/ DeclOpenPopup \/ DeclSlider \/ DeclNumber \/ DeclTextBox \/ DeclCheckbox
    \/ DeclTreeNode \/ DeclLabel \/ EndTreeNode \/ DeclPanel \/ EndPanel
    \/ EndFrame
SpecAll == InitAll /\ [][NextAll]_vars

\* scrolling containers under drags of their scrollbars and assignments of
\* their scroll offset
InitScroll == InitApp("scroll")
NextScroll ==
    \/ BeginFrame \/ DeclWindow \/ DeclPanel \/ DeclButton \/ EndPanel
    \/ DeclSetScroll \/ EndWindow \/ EndFrame
SpecScroll == InitScroll /\ [][NextScroll]_vars

\* a checkbox under the two mouse buttons
InitChk == InitApp("chk")
NextChk == BeginFrame \/ DeclWindow \/ DeclCheckbox \/ EndWindow \/ EndFrame
SpecChk == InitChk /\ [][NextChk]_vars

\* two sliders under the mouse buttons and the shift key
InitSlide == InitApp("slide")
NextSlide == BeginFrame \/ DeclWindow \/ DeclSlider \/ EndWindow \/ EndFrame
SpecSlide == InitSlide /\ [][NextSlide]_vars

\* a text box under clicks, keys and composed text
InitText == InitApp("text")
NextText ==
    \/ BeginFrame \/ DeclWindow \/ DeclTextBox \/ DeclButton \/ EndWindow
    \/ EndFrame
SpecText == InitText /\ [][NextText]_vars

\* two overlapping windows, one of them dragged by its title
InitHover == InitApp("hover")
NextHover == BeginFrame \/ DeclWindow \/ DeclButton \/ EndWindow \/ EndFrame
SpecHover == InitHover /\ [][NextHover]_vars

\* panels nested in a window and in a popup of that window
InitNest == InitApp("nest")
NextNest ==
    \/ BeginFrame \/ DeclWindow \/ DeclPanel \/ DeclButton \/ EndPanel
    \/ DeclOpenPopup \/ EndWindow \/ EndFrame
SpecNest == InitNest /\ [][NextNest]_vars

\* two buttons, one of them without label and id
InitBtn == InitApp("btn")
NextBtn == BeginFrame \/ DeclWindow \/ DeclButton \/ EndWindow \/ EndFrame
SpecBtn == InitBtn /\ [][NextBtn]_vars

\* a number field and a slider under shift-clicks, typed digits and Enter
InitEdit == InitApp("edit")
NextEdit == BeginFrame \/ DeclWindow \/ DeclNumber \/ DeclSlider \/ EndWindow \/ EndFrame
SpecEdit == InitEdit /\ [][NextEdit]_vars

\* two sliders whose bound values start outside their range
InitClamp == InitApp("clamp")
NextClamp == BeginFrame \/ DeclWindow \/ DeclSlider \/ EndWindow \/ EndFrame
SpecClamp == InitClamp /\ [][NextClamp]_vars

\* headers, one of them without label and id
InitAnon == InitApp("anon")
NextAnon == BeginFrame \/ DeclWindow \/ DeclHeader \/ EndWindow \/ EndFrame
SpecAnon == InitAnon /\ [][NextAnon]_vars

\* nested tree nodes, collapsed and expanded by default
InitTree == InitApp("tree")
NextTree ==
    \/ BeginFrame \/ DeclWindow \/ DeclTreeNode \/ DeclButton
    \/ EndTreeNode \/ EndWindow \/ EndFrame
SpecTree == InitTree /\ [][NextTree]_vars

\* a number field under drags, shift-clicks and typed text
InitNum == InitApp("num")
NextNum == BeginFrame \/ DeclWindow \/ DeclNumber \/ EndWindow \/ EndFrame
SpecNum == InitNum /\ [][NextNum]_vars

\* a slider and a text box under clicks and drags
InitDrag == InitApp("drag")
NextDrag ==
    \/ BeginFrame \/ DeclWindow \/ DeclSlider \/ DeclTextBox \/ EndWindow
    \/ EndFrame
SpecDrag == InitDrag /\ [][NextDrag]_vars

-----------------------------------------------------------------------------
(* Claims about the pool (SpecPool) *)

LogOf(op) == {k \in 1 .. Len(ctx.log) : ctx.log[k].op = op}

PoolFull(items) == \A i \in PoolIdx : items[i].id # 0

\* the slot with the smallest last-touch tick, the lowest index among ties
OldestSlot(items) ==
    CHOOSE i \in PoolIdx :
        \A j \in PoolIdx :
            \/ items[i].lastUpdate < items[j].lastUpdate
            \/ items[i].lastUpdate = items[j].lastUpdate /\ i <= j

\* C1: every poolInit call on a full pool overwrites exactly the slot with the
\* smallest last-touch tick (lowest index among ties): it stores the id there,
\* stamps it with the current tick, returns its index and leaves every other
\* slot unchanged.
C1_EvictsOldest ==
    \A k \in LogOf("poolInit") :
        LET e == ctx.log[k]
            n == OldestSlot(e.before)
        IN PoolFull(e.before) =>
              /\ ~ctx.panicked
              /\ e.n = n
              /\ ctx.treeNodePool =
                    [e.before EXCEPT ![n] = [id |-> e.id, lastUpdate |-> e.tick]]

\* C2: poolInit never faults: whatever the pool holds and whatever the tick,
\* it returns a slot index in 0 .. len-1, also when every slot has already
\* been touched in the current tick.
C2_NeverFaults ==
    /\ ~ctx.panicked
    /\ \A k \in LogOf("poolInit") : ctx.log[k].n \in PoolIdx

\* a full pool with an older slot is evicted from without a fault
C1_EvictionReached ==
    \E k \in LogOf("poolInit") :
        /\ PoolFull(ctx.log[k].before) /\ ctx.log[k].n \in PoolIdx

-----------------------------------------------------------------------------
(* Claims about hover and focus (SpecCtl) *)

AllDeclared == pc = Len(Scene(app)) + 1

\* C3: updateControl makes a control the hover only in a call in which the
\* mouse position is inside the control's rectangle and inside the current
\* clip rectangle, the innermost root container of the call is the current
\* hover root, and no mouse button is down.
C3_HoverOnlyWhenOver ==
    \A k \in LogOf("updateControl") :
        LET e == ctx.log[k]
        IN (e.hoverAfter = e.id /\ e.hoverBefore # e.id) =>
              /\ PtIn(ctx.mousePos, e.rect)
              /\ PtIn(ctx.mousePos, e.clip)
              /\ ctx.hoverRoot # 0 /\ NearestRoot(e.stack) = ctx.hoverRoot
              /\ ctx.mouseDown = {}

\* a control inside the panel, under the panel's clip rectangle, becomes
\* the hover
C3_HoverSet ==
    \E k \in LogOf("updateControl") :
        /\ ctx.log[k].hoverAfter = ctx.log[k].id
        /\ ctx.log[k].hoverBefore # ctx.log[k].id
        /\ Len(ctx.log[k].stack) = 2

\* C4: a control that is the hover when updateControl runs in a frame with a
\* press edge is the focus when the call returns; in a frame without a press
\* edge (a button merely held, or none down) no call gives the focus to a
\* control that did not have it.
C4_FocusOnPressEdge ==
    \A k \in LogOf("updateControl") :
        LET e == ctx.log[k]
        IN /\ (e.hoverBefore = e.id /\ ctx.mousePressed # {}) => e.focusAfter = e.id
           /\ (ctx.mousePressed = {} /\ e.focusBefore # e.id) => e.focusAfter # e.id

\* a hovered control that did not have the focus takes it on a press edge
C4_FocusTaken ==
    \E k \in LogOf("updateControl") :
        /\ ctx.log[k].hoverBefore = ctx.log[k].id
        /\ ctx.mousePressed # {}
        /\ ctx.log[k].focusBefore # ctx.log[k].id
        /\ ctx.log[k].focusAfter = ctx.log[k].id

\* C5: a focused control loses the focus in updateControl when (a) there is
\* a press edge while the mouse is not over the control, or (b) no button is
\* down and the control was not declared with hold-focus, and in no other
\* call; a focused control declared with hold-focus keeps the focus in every
\* call with no button down.
C5_LosesFocus ==
    \A k \in LogOf("updateControl") :
        LET e == ctx.log[k]
            away == ctx.mousePressed # {} /\ ~IsOver(ctx, e)
            released == ctx.mouseDown = {} /\ "HoldFocus" \notin e.opt
        IN e.focusBefore = e.id =>
              /\ (away \/ released) <=> e.focusAfter # e.id
              /\ ("HoldFocus" \in e.opt /\ ctx.mouseDown = {}) => e.focusAfter = e.id

\* C8: when the resting mouse is over several controls of the hover root in
\* one frame, the one declared last is the hover once all are declared; a
\* press edge in the following frame makes that control, and so none of the
\* earlier ones, the focus.
C8_LastWriterWins ==
    AllDeclared =>
        /\ Len(hist.over) >= 2 => ctx.hover = hist.over[Len(hist.over)]
        /\ (ctx.mousePressed # {} /\ Len(hist.prev) >= 2) =>
               ctx.focus = hist.prev[Len(hist.prev)]

\* the button (11) and the text box (12) overlapped under the resting mouse,
\* and the press edge of the next frame focused the text box
C8_LaterFocused ==
    /\ AllDeclared /\ ctx.mousePressed # {}
    /\ hist.prev = <<11, 12>>
    /\ ctx.focus = 12

-----------------------------------------------------------------------------
(* Claims about hold-focus (SpecDrag) *)

\* the scene entry that declares the control id
EntryOf(id) == Scene(app)[CHOOSE i \in 1 .. Len(Scene(app)) : Scene(app)[i].id = id]
Declares(id, op) ==
    \E i \in 1 .. Len(Scene(app)) : Scene(app)[i].id = id /\ Scene(app)[i].op = op

\* the value the mouse position selects on a slider with integer limits
Selected(n, rect) ==
    clampF(Rat(n.lo.n * Dx(rect) + (ctx.mousePos.x - rect.minX) * (n.hi.n - n.lo.n),
               Dx(rect)),
           n.lo, n.hi)

-----------------------------------------------------------------------------
(* Claims about the stacks (SpecAll) and about closed windows (SpecWin) *)

\* the open declarations, innermost last, that are of one of the kinds
OpenDecls(kinds) ==
    LET IsKind(i) == Scene(app)[i].op \in kinds
    IN SelectSeq(calls, IsKind)

OpenContainers ==
    LET open == OpenDecls({"window", "popup", "panel"})
    IN [k \in 1 .. Len(open) |-> Scene(app)[open[k]].id]

\* C9: whenever a declaration has returned (or has called its body, or the
\* frame has ended) the ID stack, the clip stack and the container stack hold
\* exactly what the declarations still open have pushed: an id and a
\* container for each window, popup and panel, two clip rectangles for each
\* window or popup and one for each panel; so each declaration leaves the
\* stacks at the depth it found them, whichever path it returns by.
C9_StacksBalanced ==
    /\ Len(ctx.idStack) = Len(OpenContainers)
    /\ ctx.containerStack = OpenContainers
    /\ Len(ctx.clipStack) =
          2 * Len(OpenDecls({"window", "popup"})) + Len(OpenDecls({"panel"}))

\* the slider has returned from text-entry mode in a frame in which the
\* text composition failed, after the closed window (4) and the never-opened
\* popup (3) have returned early
C9_EarlyReturnsTaken ==
    /\ app = "all" /\ pc = 11
    /\ ctx.numberEdit = 14
    /\ \E k \in LogOf("stderr") : TRUE
    /\ ctx.containers[4].created /\ ~ctx.containers[4].open /\ 1 \notin ran
    /\ ~ctx.containers[3].created
    /\ Len(ctx.idStack) = 1 /\ Len(ctx.clipStack) = 2 /\ ctx.containerStack = <<1>>

\* the window or popup about to be declared is closed: its container's open
\* flag is false, or it has no container yet and is declared closed
DeclaresClosed ==
    /\ InFrame /\ Node.op \in {"window", "popup"}
    /\ IF ctx.containers[Node.id].created
       THEN ~ctx.containers[Node.id].open
       ELSE "Closed" \in Node.opt

DeclaresOpen ==
    /\ InFrame /\ Node.op \in {"window", "popup"}
    /\ IF ctx.containers[Node.id].created
       THEN ctx.containers[Node.id].open
       ELSE "Closed" \notin Node.opt

\* C10: the declaration of a window or popup whose container is closed is a
\* no-op: its body is not called, no command is appended, the root list and
\* the next hover root stay as they are; this is so in every frame until the
\* flag is set again (SetOpen(true), OpenPopup), after which the declaration
\* joins the root list and calls its body.
C10_ClosedIsNoOp ==
    [][/\ DeclaresClosed =>
             /\ ctx'.commandList = ctx.commandList
             /\ ctx'.rootList = ctx.rootList
             /\ ctx'.nextHoverRoot = ctx.nextHoverRoot
             /\ ran' = ran /\ calls' = calls
             /\ pc' = MatchEnd(Scene(app), pc) + 1
       /\ DeclaresOpen =>
             /\ ctx'.rootList = Append(ctx.rootList, Node.id)
             /\ ran' = ran \cup {pc} /\ pc' = pc + 1]_vars

\* the window (4), closed, has been declared with the mouse inside its
\* rectangle: nothing was drawn, it is in no list and is not the next hover
\* root
C10_ClosedSkipped ==
    /\ app = "win" /\ pc = 4 /\ 1 \notin ran
    /\ ctx.containers[4].created /\ ~ctx.containers[4].open
    /\ PtIn(ctx.mousePos, ctx.containers[4].rect)
    /\ ctx.commandList = <<>> /\ ctx.rootList = <<>> /\ ctx.nextHoverRoot = 0

-----------------------------------------------------------------------------
(* Claims about popups (SpecWin) *)

\* C11: OpenPopup leaves the popup's container open, in front of every other
\* container, and both the current and the next hover root; a popup opened
\* in a frame is, when declared later in that frame, still open after its
\* declaration and its body is called, also when the frame carries a press
\* edge.
C11_OpenedPopupRuns ==
    [][/\ (At("openpopup") /\ resp # {}) =>
             /\ ctx'.containers[Node.id].open
             /\ \A k \in Created(ctx') \ {Node.id} :
                    ctx'.containers[k].zIndex < ctx'.containers[Node.id].zIndex
             /\ ctx'.hoverRoot = Node.id /\ ctx'.nextHoverRoot = Node.id
       /\ (At("popup") /\ Node.id \in hist.opened) =>
             /\ ctx'.containers[Node.id].open
             /\ ran' = ran \cup {pc} /\ pc' = pc + 1]_vars

\* the body of the popup (3) runs in the frame of the press that opened it
C11_OpenedUnderPress ==
    /\ app = "win" /\ pc = 8 /\ 7 \in ran
    /\ 3 \in hist.opened /\ ctx.mousePressed # {}
    /\ ctx.containers[3].open

\* the popups the application declares
PopupIds == {Scene(app)[i].id : i \in {j \in 1 .. Len(Scene(app)) :
                                         Scene(app)[j].op = "popup"}}

\* C12: an open popup declared in a frame with a press edge while it is not
\* the hover root has its open flag cleared by that declaration, and nothing
\* else clears the flag, so a press edge while the popup is the hover root
\* leaves it open; once cleared, the flag stays cleared and a declaration of
\* the popup skips its body (the next frame's, and every one after it) until
\* OpenPopup is called for it.
C12_DismissedOnClickAway ==
    [][\A p \in PopupIds :
          /\ (/\ At("popup") /\ Node.id = p /\ ctx.containers[p].open
              /\ ctx.mousePressed # {} /\ ctx.hoverRoot # p)
                 => ~ctx'.containers[p].open
          /\ (ctx.containers[p].open /\ ~ctx'.containers[p].open)
                 => (/\ At("popup") /\ Node.id = p
                     /\ ctx.mousePressed # {} /\ ctx.hoverRoot # p)
          /\ (/\ ctx.containers[p].created /\ ~ctx.containers[p].open
              /\ ~(At("openpopup") /\ Node.id = p /\ resp # {}))
                 => /\ ~ctx'.containers[p].open
                    /\ (At("popup") /\ Node.id = p)
                           => ran' = ran /\ pc' = MatchEnd(Scene(app), pc) + 1]_vars

\* the popup (3), opened in an earlier frame and closed by a press edge
\* elsewhere, has been declared and skipped
C12_DismissedSkipped ==
    /\ app = "win" /\ pc = 10 /\ 7 \notin ran /\ 4 \in ran
    /\ ctx.containers[3].created /\ ~ctx.containers[3].open

-----------------------------------------------------------------------------
(* Claims about scrolling (SpecScroll) *)

\* the largest scroll offset of a container: content size (with padding)
\* minus body size, on each axis, and 0 when the content fits
MaxScroll(k) ==
    Pt(Max(0, k.contentSize.x + stylePadding * 2 - Dx(k.body)),
       Max(0, k.contentSize.y + stylePadding * 2 - Dy(k.body)))

ScrollInRange(k) ==
    /\ 0 <= k.scroll.x /\ k.scroll.x <= MaxScroll(k).x
    /\ 0 <= k.scroll.y /\ k.scroll.y <= MaxScroll(k).y
    /\ Dx(k.body) <= 0 => k.scroll.x = 0
    /\ Dy(k.body) <= 0 => k.scroll.y = 0

\* C13: when the declaration of a scrolling window or panel has pushed the
\* container's body, the container's scroll offset is on each axis between 0
\* and max(0, content size - body size), and is 0 when the body has no
\* extent, whatever the offset was before the declaration.
C13_ScrollClamped ==
    [][(/\ At("window") \/ At("panel")
        /\ "NoScroll" \notin Node.opt
        /\ Node.id \in Created(ctx') /\ ctx'.containers[Node.id].open)
          => ScrollInRange(ctx'.containers[Node.id])]_vars

\* the panel (2), whose offset the application had set beyond its range and
\* whose scrollbar is being dragged further down, has been declared: the
\* offset is the largest one
C13_DraggedAndAssigned ==
    /\ app = "scroll" /\ pc = 3
    /\ MaxScroll(ctx.containers[2]).y > 0
    /\ ctx.containers[2].scroll.y = MaxScroll(ctx.containers[2]).y
    /\ ctx.focus = idFromBytes(ctx, KeyScrollY) /\ ctx.mouseDown = {"L"}
    /\ ctx.mouseDelta.y > 0

-----------------------------------------------------------------------------
(* Claims about the checkbox (SpecChk) *)

\* C14 as stated: the declaration of a checkbox that is the hovered control
\* negates the bound bool and returns Change in a frame with a left press
\* edge, and leaves the bool alone and returns no Change in a frame without
\* one.
C14_TogglesOnLeftPress ==
    [][(At("checkbox") /\ ctx.hover = Node.id) =>
          IF "L" \in ctx.mousePressed
          THEN vals'[Node.var] = ~vals[Node.var] /\ "Change" \in resp'
          ELSE vals'[Node.var] = vals[Node.var] /\ "Change" \notin resp']_vars

\* C14: the declaration of a checkbox that is the hovered control negates
\* the bound bool once and returns Change in a frame whose press edges are
\* the left button's alone; in every other frame (no press edge, a button
\* held, another button pressed, alone or together with the left one) it
\* leaves the bool alone and returns no Change.
C14_TogglesOnLoneLeftPress ==
    [][(At("checkbox") /\ ctx.hover = Node.id) =>
          IF ctx.mousePressed = {"L"}
          THEN vals'[Node.var] = ~vals[Node.var] /\ "Change" \in resp'
          ELSE vals'[Node.var] = vals[Node.var] /\ "Change" \notin resp']_vars

\* the checkbox, pressed a second time, reads false again
C14_ToggledBack ==
    /\ app = "chk" /\ pc = 3
    /\ vals.chk = FALSE /\ "Change" \in resp
    /\ ctx.hover = 12 /\ ctx.mousePressed = {"L"}

-----------------------------------------------------------------------------
(* Claims about the slider (SpecSlide) *)

\* the updateControl call the declaration at pc has made for its control
CallOf(c) ==
    c.log[CHOOSE k \in 1 .. Len(c.log) :
              c.log[k].op = "updateControl" /\ c.log[k].id = Node.id]

RatAbs(a) == IF a.n < 0 THEN Rat(-a.n, a.d) ELSE a
RatLeq(a, b) == ~RatLess(b, a)
Between(v, lo, hi) == IF RatLess(v, lo) THEN lo ELSE IF RatLess(hi, v) THEN hi ELSE v

\* low + (mouseX - rect.MinX) * (high - low) / rect.width
AtMouse(n, rect, mouseX) ==
    RatAdd(n.lo, RatDiv(RatMul(RatInt(mouseX - rect.minX), RatSub(n.hi, n.lo)),
                        RatInt(Dx(rect))))

StepRange == -30 .. 30

\* v is what the mouse selects on the slider n: the value at the mouse, or
\* with a step a multiple of the step nearest to it, brought into [low, high]
Tracks(n, rect, mouseX, v) ==
    LET raw == AtMouse(n, rect, mouseX)
    IN IF n.step.n = 0 THEN v = Between(raw, n.lo, n.hi)
       ELSE \E k \in StepRange :
               LET m == RatMul(RatInt(k), n.step)
               IN /\ RatLeq(RatMul(RatInt(2), RatAbs(RatSub(raw, m))), n.step)
                  /\ v = Between(m, n.lo, n.hi)

\* the declaration of the slider id runs in text-entry mode
InTextEntry(id) ==
    \/ ctx.numberEdit = id
    \/ ctx.mousePressed = {"L"} /\ "Shift" \in ctx.keyDown /\ ctx.hover = id

\* C15 as stated: a slider that holds the focus after updateControl, with
\* the left button pressed or held, takes the value the mouse selects and
\* returns Change exactly when the value differs from before.
C15_SetFromMouse ==
    [][At("slider") =>
          ((CallOf(ctx').focusAfter = Node.id
            /\ "L" \in ctx.mouseDown \cup ctx.mousePressed)
              => /\ Tracks(Node, CallOf(ctx').rect, ctx.mousePos.x, vals'[Node.var])
                 /\ "Change" \in resp' <=> vals'[Node.var] # vals[Node.var])]_vars

\* C15: a slider not in text-entry mode that holds the focus after
\* updateControl, with the left button and no other pressed or held, takes
\* the value the mouse selects: low + (mouseX - rect.MinX) * (high - low) /
\* rect.width, with a step a nearest multiple of it, brought into [low,
\* high]; otherwise it keeps its value, brought into [low, high]; it returns
\* Change exactly when the value differs from before.  In text-entry mode
\* the declaration leaves the value alone and returns nothing.
C15_SetFromMouseInNormalMode ==
    [][At("slider") =>
          IF InTextEntry(Node.id)
          THEN vals'[Node.var] = vals[Node.var] /\ resp' = {}
          ELSE /\ IF /\ CallOf(ctx').focusAfter = Node.id
                     /\ ctx.mouseDown \cup ctx.mousePressed = {"L"}
                  THEN Tracks(Node, CallOf(ctx').rect, ctx.mousePos.x,
                              vals'[Node.var])
                  ELSE vals'[Node.var] = Between(vals[Node.var], Node.lo, Node.hi)
               /\ "Change" \in resp' <=> vals'[Node.var] # vals[Node.var]]_vars

\* the slider without a step was dragged to x = 75 of its 100 and reads
\* 7.5; the slider with step 1, pressed at the same x, reads 8
C15_DraggedTo75 ==
    /\ app = "slide" /\ pc = 4
    /\ ctx.focus = 23 /\ ctx.mouseDown = {"L"} /\ ctx.mousePos = Pt(80, 40)
    /\ vals.val = Rat(15, 2) /\ vals.val2 = RatInt(8) /\ "Change" \in resp

-----------------------------------------------------------------------------
(* Claims about the text box (SpecText) *)

\* what the text-composition service reported to the declaration that has
\* just run: nothing when HandleInput was not called
Heard(c) == {c.log[k].tin : k \in {j \in 1 .. Len(c.log) : c.log[j].op = "HandleInput"}}

\* C16: a text box declared in a frame with no press edge, no key pressed
\* and no composed text leaves the bound string as it is and returns neither
\* Change nor Submit, whether or not it holds the focus.  (Refuted: Enter
\* empties the field and keeps the string; a text box focused again in a
\* frame in which HandleInput fails copies the empty field into the string
\* in the next frame, which may be one without input.)
C16_NoInputNoChange ==
    [][(/\ At("textbox")
        /\ ctx.mousePressed = {} /\ ctx.keyPressed = {}
        /\ \A t \in Heard(ctx') : t.typed = "" /\ ~t.err)
          => /\ vals'[Node.var] = vals[Node.var]
             /\ resp' \cap {"Change", "Submit"} = {}]_vars

\* the focused text box, its string edited in earlier frames, has been
\* declared in a frame with no input
C16_FocusedNoInput ==
    /\ app = "text" /\ pc = 3 /\ ctx.focus = 12
    /\ ctx.mousePressed = {} /\ ctx.keyPressed = {}
    /\ Heard(ctx) = {NoText}
    /\ vals.buf = <<"a", "b", "x">> /\ resp = {}

-----------------------------------------------------------------------------
(* Claims about the number field (SpecNum) *)

\* C17: when a number field in text-entry mode is committed (its text box
\* has returned Submit, or the control does not hold the focus after the
\* text box has run; Submit drops the focus too) and the text does not
\* parse as a number, the bound value is 0 afterwards, text-entry mode has
\* ended, the declaration returns an empty response and the frame goes on.
C17_MalformedGivesZero ==
    [][(/\ At("number") /\ InTextEntry(Node.id)
        /\ ctx'.focus # Node.id
        /\ ~IsDecimal(ctx'.numberEditBuf))
          => /\ vals'[Node.var] = RatInt(0)
             /\ ctx'.numberEdit = 0
             /\ resp' = {} /\ ~ctx'.panicked /\ pc' = pc + 1]_vars

\* the number field, bound to 5, was committed with the text "x" and reads 0
C17_CommittedMalformed ==
    /\ app = "num" /\ pc = 3
    /\ vals.num = RatInt(0)
    /\ ctx.numberEditBuf = <<"x">> /\ ctx.numberEdit = 0 /\ ctx.focus # 15

\* C18: when HandleInput reports an error for a focused text box, the
\* declaration returns an empty response, the bound string and the field
\* are as before, the text box still holds the focus, the ID, container
\* and clip stacks are as before the declaration, and the frame goes on
\* with the next declaration.
InputFailed(c) == \E t \in Heard(c) : t.err

C18_InputErrorIsQuiet ==
    [][(At("textbox") /\ InputFailed(ctx'))
          => /\ resp' = {} /\ vals' = vals
             /\ ctx'.textFields = ctx.textFields
             /\ ctx'.focus = Node.id
             /\ ctx'.idStack = ctx.idStack
             /\ ctx'.containerStack = ctx.containerStack
             /\ ctx'.clipStack = ctx.clipStack
             /\ ~ctx'.panicked /\ pc' = pc + 1 /\ At("button")']_vars

\* HandleInput has failed for the focused text box, whose string differs
\* from its field, and the button after it is about to be declared
C18_FailedWhileFocused ==
    /\ app = "text" /\ pc = 3 /\ InputFailed(ctx)
    /\ ctx.focus = 12 /\ resp = {}
    /\ vals.buf = <<"a", "b", "c">> /\ ctx.textFields[12] # vals.buf

-----------------------------------------------------------------------------
(* Claims about the hover root (SpecHover) *)

RootsDeclared == AllDeclared /\ ~ctx.panicked /\ hist.opened = {}

\* the root containers whose body ran in this frame
DeclaredOpen ==
    {Scene(app)[i].id : i \in {j \in ran : Scene(app)[j].op \in {"window", "popup"}}}

\* k is the member of ids with the highest z-index, 0 when ids is empty
Topmost(k, ids) ==
    IF ids = {} THEN k = 0
    ELSE k \in ids /\ \A j \in ids : ctx.containers[j].zIndex <= ctx.containers[k].zIndex

\* C19 (as stated): when all root windows of a frame without OpenPopup have
\* been declared, the next hover root is the root of the highest z-index
\* among those declared open whose rectangle contains the mouse position,
\* and nil when there is none.
C19_TopmostUnderMouse ==
    RootsDeclared =>
        Topmost(ctx.nextHoverRoot,
                {k \in DeclaredOpen : PtIn(ctx.mousePos, ctx.containers[k].rect)})

\* C19 (amended): when all root windows of a frame without OpenPopup have
\* been declared, the next hover root is the root of the highest z-index
\* among those declared open whose rectangle, as it was when the
\* declaration tested it (before the title drag of this frame moved it),
\* contains the mouse position, and nil when there is none.
C19_TopmostWhenDeclared ==
    RootsDeclared =>
        Topmost(ctx.nextHoverRoot,
                {s.id : s \in {t \in hist.seen : PtIn(ctx.mousePos, t.rect)}})

\* both windows have been declared under the mouse, and the lower-declared
\* window 4, brought to the front before, is the next hover root
C19_FrontWindowChosen ==
    /\ app = "hover" /\ RootsDeclared
    /\ \A k \in {1, 4} : \E s \in hist.seen : s.id = k /\ PtIn(ctx.mousePos, s.rect)
    /\ ctx.nextHoverRoot = 4

-----------------------------------------------------------------------------
(* Claims about panels and the hover root (SpecNest) *)

PanelIds == {Scene(app)[i].id : i \in {j \in 1 .. Len(Scene(app)) :
                                         Scene(app)[j].op = "panel"}}

\* the updateControl call e is made for a control inside a panel
InPanel(e) == e.stack # <<>> /\ Top(e.stack) \in PanelIds

\* C20: no panel is the hover root or the next hover root.  A control
\* declared inside a panel, under the resting mouse and inside the clip
\* rectangle, is the hover after its updateControl call exactly when the
\* window or popup nearest to the panel on the container stack is the hover
\* root; when that root is not the hover root no call makes the control the
\* hover, whatever roots lie further out on the stack.
C20_PanelsTransparent ==
    /\ ctx.hoverRoot \notin PanelIds /\ ctx.nextHoverRoot \notin PanelIds
    /\ \A k \in LogOf("updateControl") :
          LET e == ctx.log[k]
              inRoot == ctx.hoverRoot # 0 /\ NearestRoot(e.stack) = ctx.hoverRoot
          IN InPanel(e) =>
                /\ (/\ PtIn(ctx.mousePos, e.rect) /\ PtIn(ctx.mousePos, e.clip)
                    /\ ctx.mouseDown = {} /\ "NoInteract" \notin e.opt)
                      => (e.hoverAfter = e.id <=> inRoot)
                /\ ~inRoot => ~(e.hoverAfter = e.id /\ e.hoverBefore # e.id)

\* the button in the popup's panel is declared under the resting mouse while
\* the window around the popup is the hover root, and does not become the
\* hover
C20_OuterRootIsNotEnough ==
    /\ app = "nest"
    /\ \E k \in LogOf("updateControl") :
          LET e == ctx.log[k]
          IN /\ e.id = 32 /\ e.stack = <<1, 3, 4>> /\ ctx.hoverRoot = 1
             /\ PtIn(ctx.mousePos, e.rect) /\ PtIn(ctx.mousePos, e.clip)
             /\ ctx.mouseDown = {} /\ e.hoverAfter # 32

-----------------------------------------------------------------------------
(* Claims about the jump commands of root windows (SpecWin) *)

\* the command at the Go index i of the command list
CommandAt(c, i) == c.commandList[i + 1]

\* C21: the declaration of an open root window appends its head jump to
\* the command list as it was and records the index; no later step of the
\* frame moves the head index of a window still being declared; when the
\* declaration returns it appends the tail jump after everything emitted
\* since, so that headIdx < tailIdx, and aims the head jump at the index
\* after the tail jump; every root declared since the head jump (in the
\* window's body) has returned with head and tail strictly inside.
C21_JumpsBracketWindow ==
    [][/\ (At("window") \/ At("popup")) /\ pc \in ran' =>
             LET k == Node.id
                 h == ctx'.containers[k].headIdx
             IN /\ h = Len(ctx.commandList)
                /\ SubSeq(ctx'.commandList, 1, h) = ctx.commandList
                /\ CommandAt(ctx', h).typ = "jump"
       /\ InFrame =>
             \A i \in 1 .. Len(ctx.containerStack) :
                LET k == ctx.containerStack[i]
                IN (i <= Len(ctx'.containerStack) /\ ctx'.containerStack[i] = k) =>
                      ctx'.containers[k].headIdx = ctx.containers[k].headIdx
       /\ (At("end") /\ Caller.op \in {"window", "popup"}) =>
             LET k == Caller.id
                 h == ctx'.containers[k].headIdx
                 t == ctx'.containers[k].tailIdx
                 inner == {j \in CntIds \ {k} :
                             /\ \E i \in 1 .. Len(ctx.rootList) : ctx.rootList[i] = j
                             /\ ctx.containers[j].headIdx > h}
             IN /\ t = Len(ctx.commandList)
                /\ Len(ctx'.commandList) = t + 1
                /\ SubSeq(ctx'.commandList, h + 2, t) = SubSeq(ctx.commandList, h + 2, t)
                /\ CommandAt(ctx', t).typ = "jump"
                /\ h = ctx.containers[k].headIdx /\ h < t
                /\ CommandAt(ctx', h).typ = "jump"
                /\ CommandAt(ctx', h).dst = t + 1
                /\ \A j \in inner :
                      /\ h < ctx'.containers[j].headIdx
                      /\ ctx'.containers[j].headIdx < ctx'.containers[j].tailIdx
                      /\ ctx'.containers[j].tailIdx < t]_vars

\* window 1 has returned in a frame in which the popup declared in its body
\* was open: the popup's jumps lie inside the window's
C21_PopupInsideWindow ==
    /\ app = "win" /\ pc = 11 /\ 7 \in ran /\ ~ctx.panicked
    /\ ctx.containers[1].headIdx < ctx.containers[3].headIdx
    /\ ctx.containers[3].headIdx < ctx.containers[3].tailIdx
    /\ ctx.containers[3].tailIdx < ctx.containers[1].tailIdx
    /\ CommandAt(ctx, ctx.containers[3].headIdx).dst = ctx.containers[3].tailIdx + 1

-----------------------------------------------------------------------------
(* Claims about headers and the tree-node pool (SpecPool) *)

\* the scene entries that declare headers and tree nodes
HeaderNodes ==
    {Scene(app)[i] : i \in {j \in 1 .. Len(Scene(app)) :
                              Scene(app)[j].op \in {"header", "treenode"}}}

\* the open state the pool stores for the header n: an entry means open, or
\* for a header created with the expanded option collapsed
StoredOpen(c, n) ==
    IF "Expanded" \in n.opt THEN poolGet(c, n.id) < 0 ELSE poolGet(c, n.id) >= 0

\* C22: the declaration of a header or tree node that is clicked (left
\* press edge while it holds the focus) flips its stored open state; a
\* declaration without a click leaves it as it is and returns Active exactly
\* when it is open; and while the pool is not over capacity no declaration
\* changes the stored open state of another header.
C22_ClickToggles ==
    [][(At("header") \/ At("treenode")) =>
          LET clicked == ctx.mousePressed = {"L"} /\ ctx'.focus = Node.id
          IN /\ clicked => StoredOpen(ctx', Node) = ~StoredOpen(ctx, Node)
             /\ ~clicked => /\ StoredOpen(ctx', Node) = StoredOpen(ctx, Node)
                            /\ "Active" \in resp' <=> StoredOpen(ctx, Node)
             /\ ~PoolFull(ctx.treeNodePool) =>
                   \A m \in HeaderNodes :
                      m.id # Node.id => StoredOpen(ctx', m) = StoredOpen(ctx, m)]_vars

\* C23: no two slots of the tree-node pool hold the same non-zero id.
C23_OneEntryPerId ==
    \A i, j \in PoolIdx :
        (i # j /\ ctx.treeNodePool[i].id # 0) =>
            ctx.treeNodePool[i].id # ctx.treeNodePool[j].id

\* a header has just been inserted over the entry of another header, which
\* the pool no longer holds, and the pool is full again
C23_EvictedAndReplaced ==
    /\ PoolFull(ctx.treeNodePool)
    /\ \E k \in LogOf("poolInit") :
          LET e == ctx.log[k]
          IN /\ e.n \in PoolIdx /\ e.before[e.n].id # 0
             /\ poolGet(ctx, e.before[e.n].id) = -1
             /\ poolGet(ctx, e.id) = e.n

\* C24: a poolInit call leaves every slot whose last-touch tick is the
\* current tick as it was: it does not choose such a slot, and the entry in
\* it is still there when the declaration that made the call returns.
C24_TouchedSurvive ==
    \A k \in LogOf("poolInit") :
        LET e == ctx.log[k]
        IN \A i \in PoolIdx :
              e.before[i].lastUpdate = e.tick =>
                  /\ e.n # i
                  /\ ctx.treeNodePool[i] = e.before[i]

\* a header is inserted into a full pool in which one entry was touched
\* earlier in the frame and the other was not: the older entry goes
C24_OlderEntryTaken ==
    \E k \in LogOf("poolInit") :
        LET e == ctx.log[k]
        IN /\ PoolFull(e.before) /\ e.n \in PoolIdx
           /\ \E i \in PoolIdx : e.before[i].lastUpdate = e.tick
           /\ e.before[e.n].lastUpdate < e.tick
           /\ ctx.treeNodePool[e.n].id = e.id

-----------------------------------------------------------------------------
(* Further claims about focus and buttons (SpecCtl) *)

\* C25: an updateControl call gives the focus to a control that did not
\* have it only when the mouse position of the frame is inside the control's
\* rectangle and the clip rectangle and the control's root is the hover
\* root; so a press edge in the frame in which the mouse has left the
\* hovered control does not focus it.
C25_FocusOnlyUnderMouse ==
    \A k \in LogOf("updateControl") :
        LET e == ctx.log[k]
        IN (e.focusAfter = e.id /\ e.focusBefore # e.id) => IsOver(ctx, e)

\* C26 (SpecBtn): a button declaration returns Submit only in a frame with
\* a left press edge and with the mouse inside the button's rectangle and
\* the clip rectangle, the button's root being the hover root; this for the
\* button with an id and for the button without label and id.
C26_SubmitOnlyOnClick ==
    [][(At("button") /\ "Submit" \in resp') =>
          /\ ctx.mousePressed = {"L"}
          /\ PtIn(ctx.mousePos, layoutRect(ctx, Node.r))
          /\ PtIn(ctx.mousePos, clipRect(ctx))
          /\ ctx.hoverRoot # 0
          /\ NearestRoot(ctx.containerStack) = ctx.hoverRoot]_vars

\* text entry on the control of this declaration ends in this declaration:
\* it was open, or a shift + left click opens it, and it is closed after
Committing ==
    /\ \/ ctx.numberEdit = Node.id
       \/ ctx.mousePressed = {"L"} /\ "Shift" \in ctx.keyDown /\ ctx.hover = Node.id
    /\ ctx'.numberEdit = 0

\* C27 (SpecEdit): when a number field or a slider commits text entry with
\* text that parses as x, the bound value after the declaration is x, for
\* the slider x clamped to [low, high].
C27_CommitStoresParsed ==
    [][((At("number") \/ At("slider")) /\ Committing
          /\ ~ParseFloat32(ctx'.numberEditBuf).err) =>
          vals'[Node.var] =
              IF Node.op = "slider"
              THEN clampF(ParseFloat32(ctx'.numberEditBuf).v, Node.lo, Node.hi)
              ELSE ParseFloat32(ctx'.numberEditBuf).v]_vars

\* C28 (SpecClamp): after a slider declaration in normal mode with
\* low <= high the bound value lies in [low, high], dragged or not, and the
\* response has Change exactly when the bound value differs from before.
C28_InRangeAndChange ==
    [][(At("slider") /\ ~InTextEntry(Node.id) /\ RatLeq(Node.lo, Node.hi)) =>
          /\ RatLeq(Node.lo, vals'[Node.var])
          /\ RatLeq(vals'[Node.var], Node.hi)
          /\ "Change" \in resp' <=> vals'[Node.var] # vals[Node.var]]_vars

\* the first slider was clamped from 12 to 10 untouched, and the second,
\* dragged beyond its right edge, is clamped from 21 to 10 and says Change
C28_DraggedPastTheEnd ==
    /\ app = "clamp" /\ pc = 4
    /\ ctx.focus = 23 /\ ctx.mouseDown = {"L"} /\ ctx.mousePos = Pt(200, 40)
    /\ vals.val = RatInt(10) /\ vals.val2 = RatInt(10) /\ "Change" \in resp

\* a pool slot that poolInit has filled and that was not cleared since:
\* poolInit stamps it with the tick, which is at least 1 inside a frame,
\* and clearing writes the zero poolItem
LiveSlot(c, i) == c.treeNodePool[i].lastUpdate > 0
LiveSlotsOf(c, id) == {i \in PoolIdx : LiveSlot(c, i) /\ c.treeNodePool[i].id = id}

\* C29 (SpecAnon): the poolGet of a header declaration returns -1 when no
\* live pool entry stores the header's id, the zero id and pools with unused
\* slots included, and otherwise the index of the slot that stores it.
C29_GetFindsLiveOnly ==
    [][At("header") =>
          IF LiveSlotsOf(ctx, Node.id) = {}
          THEN poolGet(ctx, Node.id) = -1
          ELSE poolGet(ctx, Node.id) \in LiveSlotsOf(ctx, Node.id)]_vars

\* the number of tree-node bodies running inside the innermost container
RECURSIVE TreeDepth(_)
TreeDepth(stack) ==
    IF stack = <<>> \/ Scene(app)[Top(stack)].op # "treenode" THEN 0
    ELSE 1 + TreeDepth(PopSeq(stack))

\* C30 (SpecTree): a tree node runs its body exactly when its header
\* returns Active; while the body runs the indent of the current layout is
\* one style indent above its value before the call, and after the call,
\* body run or not, it is that value again, through every nesting depth.
C30_BodyIndented ==
    [][/\ (At("treenode") /\ ~ctx'.panicked) =>
             /\ pc \in ran' <=> "Active" \in resp'
             /\ pc' = IF "Active" \in resp' THEN pc + 1
                      ELSE MatchEnd(Scene(app), pc) + 1
             /\ layout(ctx').indent = layout(ctx).indent
                    + IF "Active" \in resp' THEN styleIndent ELSE 0
       /\ (At("end") /\ Caller.op = "treenode") =>
             layout(ctx').indent = layout(ctx).indent - styleIndent
       /\ (InFrame /\ ~ctx'.panicked /\ pc' # 0 /\ ctx'.layoutStack # <<>>) =>
             layout(ctx').indent = styleIndent * TreeDepth(calls')]_vars

\* both nested bodies ran in this frame, the inner one expanded by default,
\* and after the outer tree node the indent is 0 again
C30_NestedBodiesReturned ==
    /\ app = "tree" /\ pc = 7 /\ ~ctx.panicked
    /\ {2, 3} \subseteq ran /\ layout(ctx).indent = 0
    /\ poolGet(ctx, 11) >= 0 /\ poolGet(ctx, 12) < 0

====
